---------------------------- MODULE Spec2Model ----------------------------
(***************************************************************************)
(* A model of the LeftOvers scanner: the response classifier               *)
(* (core/detection.py), the HTTP transport with its LRU response cache     *)
(* (utils/http_utils.py) and the scan scheduler (core/scanner.py).         *)
(*                                                                         *)
(* Strings that the code takes apart (URLs, content types, bodies) are     *)
(* modelled by records carrying exactly the parts the code looks at.       *)
(***************************************************************************)
EXTENDS Integers, Sequences, FiniteSets, Bags, TLC

(***************************************************************************)
(* Program constants.                                                      *)
(***************************************************************************)
SUCCESS_STATUSES == {200, 206}

\* calculate_content_hash hashes only head and tail above 100 KB
LargeHashThreshold == 102400

\* "small HTML" limit of the repeated-response rule
SmallHtmlLimit == 2000

\* repetitions of a (status, length, type) triple that make a response generic
RepeatThreshold == 3
RepeatThresholdSuccess == 5

\* distinct URLs / extensions per content hash that make a response generic
HashRepeatThreshold == 3
MaxExtensionLength == 5

\* similarity thresholds, in percent
ThresholdSuccess == 90
ThresholdOther == 70
MainSimilarityThreshold == 95
MainSizeRatio == 97
MainTextSizeRatio == 80
SpaIndicatorThreshold == 2

(***************************************************************************)
(* Response bodies.  A body is known by what the code reads of it: its     *)
(* length, its digests (md5 of the whole, md5 of head+tail), whether it    *)
(* starts with the PDF magic bytes, the text that _extract_text_content    *)
(* returns for it, and the SPA patterns found in it.                       *)
(***************************************************************************)
Body(len, full, edge, pdfsig, text, spaCount, spaMain) ==
    [len |-> len, full |-> full, edge |-> edge, pdfsig |-> pdfsig,
     text |-> text, spaCount |-> spaCount, spaMain |-> spaMain]

BEmpty == Body(0, "d0", "e0", FALSE, "", 0, FALSE)
BPdf   == Body(900, "dPdf", "ePdf", TRUE, "tPdf", 0, FALSE)
BErr   == Body(500, "dErr", "eErr", FALSE, "tErr", 0, FALSE)
BErrV  == Body(500, "dErrV", "eErrV", FALSE, "tErrV", 0, FALSE)
BMain  == Body(1500, "dMain", "eMain", FALSE, "tMain", 2, TRUE)
BMainV == Body(1490, "dMainV", "eMainV", FALSE, "tMainV", 0, FALSE)
BMainW == Body(1300, "dMainW", "eMainW", FALSE, "tMainV", 0, FALSE)
BData  == Body(3000, "dData", "eData", FALSE, "tData", 0, FALSE)
BBig   == Body(200000, "dBig", "eBig", FALSE, "tBig", 0, FALSE)
BBig2  == Body(200000, "dBig2", "eBig", FALSE, "tBig2", 0, FALSE)

\* calculate_content_hash: "" for no content, md5(head+tail) above 100 KB
calculate_content_hash(content) ==
    IF content.len = 0 THEN ""
    ELSE IF content.len > LargeHashThreshold THEN content.edge
    ELSE content.full

\* _compute_text_similarity, in percent: equal texts 100, an empty text 0,
\* otherwise the ratio of the two texts
TextRatio(t1, t2) ==
    CASE {t1, t2} = {"tErr", "tErrV"}   -> 80
      [] {t1, t2} = {"tMain", "tMainV"} -> 96
      [] OTHER                          -> 10

compute_text_similarity(t1, t2) ==
    IF t1 = t2 THEN 100
    ELSE IF t1 = "" \/ t2 = "" THEN 0
    ELSE TextRatio(t1, t2)

(***************************************************************************)
(* Content types: the header value, and what the code derives from it.     *)
(***************************************************************************)
CT_HTML     == "text/html"
CT_HTML_CS  == "text/html; charset=utf-8"
CT_PDF      == "application/pdf"
CT_PLAIN    == "text/plain"
CT_ZIP      == "application/zip"

\* content_type.split(';')[0].strip()
ContentTypeBase(ct) == IF ct = CT_HTML_CS THEN CT_HTML ELSE ct

ContainsText(ct)  == ct \in {CT_HTML, CT_HTML_CS, CT_PLAIN}
ContainsHtml(ct)  == ct \in {CT_HTML, CT_HTML_CS}
ContainsPdf(ct)   == ct = CT_PDF
StartsWithText(ct) == ct \in {CT_HTML, CT_HTML_CS, CT_PLAIN}
\* any of 'pdf', 'octet-stream', 'image/', ..., 'zip', ... in the type
IsBinaryType(ct)  == ct \in {CT_PDF, CT_ZIP}

(***************************************************************************)
(* URLs: <base>.<ext>.  url.split('.')[-1] is the extension.               *)
(***************************************************************************)
Url(base, ext) == [base |-> base, ext |-> ext]

UrlExtension(url) == url.ext
EndsWithPdf(url) == url.ext = "pdf"
ExtensionLength(ext) ==
    CASE ext \in {"pdf", "bak", "zip", "php", "sql"} -> 3
      [] ext = "xlsx" -> 4
      [] ext = "backup" -> 6
      [] OTHER -> 3

HtmlExtensions == {"html", "htm", "php", "asp", "aspx", "jsp"}
NonHtmlExtensions == {"zip", "rar", "tar", "gz", "pdf", "doc", "docx", "xls",
                      "xlsx", "ppt", "pptx", "json", "xml", "txt", "csv",
                      "sql", "bak", "log"}

\* _check_spa_fallback: TRUE when it returns a non-empty description
check_spa_fallback(content, url) ==
    LET ext == UrlExtension(url)
        extra == IF ext \in NonHtmlExtensions /\ content.spaMain THEN 1 ELSE 0
    IN  IF ext \in HtmlExtensions THEN FALSE
        ELSE content.spaCount + extra >= SpaIndicatorThreshold

(***************************************************************************)
(* Python dictionaries with default values.                                *)
(***************************************************************************)
Lookup(d, k, default) == IF k \in DOMAIN d THEN d[k] ELSE default
Store(d, k, v) == [x \in DOMAIN d \cup {k} |-> IF x = k THEN v ELSE d[x]]
EmptyDict == [x \in {} |-> 0]


(***************************************************************************)
(* Fingerprints recorded by establish_baseline.                            *)
(***************************************************************************)
NoMainPage == [present |-> FALSE, size |-> 0, hash |-> "", content_type |-> "",
               text_content |-> ""]

\* the main_page dictionary built from the front page's response
MainPageOf(ct, content) ==
    [present |-> TRUE, size |-> content.len,
     hash |-> calculate_content_hash(content), content_type |-> ct,
     text_content |-> IF ContainsHtml(ct) /\ content.len > 0
                      THEN content.text ELSE ""]

\* one entry of baseline_responses[status]
BaselineEntryOf(ct, content) ==
    [content_hash |-> calculate_content_hash(content), content_type |-> ct,
     content_length |-> content.len,
     text_content |-> IF StartsWithText(ct) THEN content.text ELSE ""]

(***************************************************************************)
(* check_false_positive.  The result is the returned pair together with    *)
(* the content hash stored in the ScanResult and the two frequency         *)
(* indexes as the call leaves them.                                        *)
(***************************************************************************)
Verdict(fp, reason, hash, sizef, hashf) ==
    [fp |-> fp, reason |-> reason, content_hash |-> hash,
     size_frequency |-> sizef, hash_frequency |-> hashf]

SizeKey(result) ==
    <<result.status_code, result.content_length, ContentTypeBase(result.content_type)>>

\* (mutant) the PDF special case without the test of the status code
IsPdfDocument_AnyStatus(result, content) ==
    /\ (ContainsPdf(result.content_type) \/ EndsWithPdf(result.url))
    /\ content.pdfsig

\* (mutant) a classifier without the PDF special case
IsPdfDocument_Never(result, content) == FALSE

\* the PDF special case: success status, a PDF type or .pdf URL, PDF magic bytes
IsPdfDocument(result, content) ==
    /\ result.status_code \in SUCCESS_STATUSES
    /\ (ContainsPdf(result.content_type) \/ EndsWithPdf(result.url))
    /\ content.pdfsig

\* extensions of the URLs that returned one content hash
ExtensionsOf(urls) ==
    {UrlExtension(u) : u \in {v \in urls : ExtensionLength(UrlExtension(v)) <= MaxExtensionLength}}

\* (mutant) a classifier without the same-content rule
SameContentForExtensions_Never(urls) == FALSE

SameContentForExtensions(urls) ==
    /\ Cardinality(urls) >= HashRepeatThreshold
    /\ Cardinality(ExtensionsOf(urls)) >= HashRepeatThreshold

\* (mutant) the repeated-response rule for error statuses only
RepeatedResponse_ErrorsOnly(result, count) ==
    count >= RepeatThreshold /\ result.status_code \notin SUCCESS_STATUSES

\* the repeated (status, length, type) rule
RepeatedResponse(result, count) ==
    /\ count >= RepeatThreshold
    /\ IF result.status_code \in SUCCESS_STATUSES
       THEN \/ ContainsHtml(result.content_type) /\ result.content_length < SmallHtmlLimit
            \/ count >= RepeatThresholdSuccess
       ELSE TRUE

\* (mutant) the repeated-response rule firing without a reason
RepeatedReason_Blank(result) == ""

RepeatedReason(result) ==
    IF /\ result.status_code \in SUCCESS_STATUSES
       /\ ContainsHtml(result.content_type)
       /\ result.content_length < SmallHtmlLimit
    THEN "Multiple identical small HTML responses (likely custom error page)"
    ELSE "Multiple identical responses"

\* a success response whose hash is the hash of some baseline response
MatchesBaselineHash(result, hash, baseline) ==
    /\ result.status_code \in SUCCESS_STATUSES
    /\ DOMAIN baseline # {}
    /\ \E st \in DOMAIN baseline :
          \E i \in 1..Len(baseline[st]) : baseline[st][i].content_hash = hash

\* an error response whose text is similar to a baseline 404 page
SimilarToBaseline404(result, text_content, baseline) ==
    LET threshold == IF result.status_code \in SUCCESS_STATUSES
                     THEN ThresholdSuccess ELSE ThresholdOther
    IN  /\ result.status_code >= 400
        /\ 404 \in DOMAIN baseline
        /\ text_content # ""
        /\ \E i \in 1..Len(baseline[404]) :
              /\ baseline[404][i].text_content # ""
              /\ compute_text_similarity(text_content, baseline[404][i].text_content) > threshold

Min(a, b) == IF a < b THEN a ELSE b
Max(a, b) == IF a > b THEN a ELSE b

\* (mutant) the exact-hash rule applied to success statuses only
MainHashMatches_SuccessOnly(result, hash, main) ==
    hash = main.hash /\ result.status_code \in SUCCESS_STATUSES

\* the exact-hash rule of the main-page comparison
MainHashMatches(result, hash, main) ==
    hash = main.hash

\* the main-page comparison: the reason, or "" when it does not apply
MainPageReason(result, hash, text_content, main) ==
    IF ~(main.present /\ hash # "") THEN ""
    ELSE IF MainHashMatches(result, hash, main)
    THEN "Response hash matches main page (SPA fallback or site returns same content)"
    ELSE IF /\ result.status_code \in SUCCESS_STATUSES
            /\ main.size # 0
            /\ result.content_length > 0
    THEN LET lo == Min(result.content_length, main.size)
             hi == Max(result.content_length, main.size)
         IN  IF 100 * lo > MainSizeRatio * hi /\ result.content_type = main.content_type
             THEN "Response very similar to main page (likely same content with small variations)"
             ELSE IF /\ 100 * lo > MainTextSizeRatio * hi
                     /\ result.content_type = main.content_type
                     /\ text_content # ""
                     /\ main.text_content # ""
                     /\ compute_text_similarity(text_content, main.text_content)
                            > MainSimilarityThreshold
             THEN "Response text is similar to main page content"
             ELSE ""
    ELSE ""

Reason404 == "404 responses are typically not residual files"
ReasonSameContent == "Same content returned for multiple file extensions"
ReasonBaselineHash == "Response hash matches baseline response (server returns same content for non-existent files)"
ReasonSimilar404 == "Response text is similar to 404 error page"
ReasonSpa == "Detected SPA fallback"

check_false_positive(result, content, baseline, main, sizef, hashf) ==
    LET hash == calculate_content_hash(content)
        hashf1 == Store(hashf, hash, Lookup(hashf, hash, {}) \cup {result.url})
        key == SizeKey(result)
        sizef1 == Store(sizef, key, Lookup(sizef, key, 0) + 1)
        text_content == IF ContainsText(result.content_type) /\ content.len > 0
                        THEN content.text ELSE ""
        main_reason == MainPageReason(result, hash, text_content, main)
    IN  IF result.content_length = 0
        THEN Verdict(FALSE, "", hash, sizef, hashf1)
        ELSE IF IsPdfDocument(result, content)
        THEN Verdict(FALSE, "", hash, sizef, hashf1)
        ELSE IF result.status_code = 404
        THEN Verdict(TRUE, Reason404, hash, sizef, hashf1)
        ELSE IF SameContentForExtensions(hashf1[hash])
        THEN Verdict(TRUE, ReasonSameContent, hash, sizef1, hashf1)
        ELSE IF RepeatedResponse(result, sizef1[key])
        THEN Verdict(TRUE, RepeatedReason(result), hash, sizef1, hashf1)
        ELSE IF MatchesBaselineHash(result, hash, baseline)
        THEN Verdict(TRUE, ReasonBaselineHash, hash, sizef1, hashf1)
        ELSE IF SimilarToBaseline404(result, text_content, baseline)
        THEN Verdict(TRUE, ReasonSimilar404, hash, sizef1, hashf1)
        ELSE IF main_reason # ""
        THEN Verdict(TRUE, main_reason, hash, sizef1, hashf1)
        ELSE IF result.status_code \in SUCCESS_STATUSES /\ IsBinaryType(result.content_type)
        THEN Verdict(FALSE, "", hash, sizef1, hashf1)
        ELSE IF /\ result.status_code \in SUCCESS_STATUSES
                /\ content.len > 0
                /\ check_spa_fallback(content, result.url)
        THEN Verdict(TRUE, ReasonSpa, hash, sizef1, hashf1)
        ELSE Verdict(FALSE, "", hash, sizef1, hashf1)


(***************************************************************************)
(* LRUCache: an OrderedDict, oldest entry first.                           *)
(***************************************************************************)
CacheKeys(c) == {c[i].key : i \in 1..Len(c)}
CacheIndex(c, key) == CHOOSE i \in 1..Len(c) : c[i].key = key
RemoveAt(c, i) == SubSeq(c, 1, i - 1) \o SubSeq(c, i + 1, Len(c))
move_to_end(c, key) == RemoveAt(c, CacheIndex(c, key)) \o <<c[CacheIndex(c, key)]>>

NoValue == [success |-> FALSE, status_code |-> 0, content_type |-> "",
            content_length |-> 0, error |-> ""]

\* (mutant) get that leaves the order alone: the cache becomes first-in first-out
LRUCache_get_NoTouch(c, key) ==
    IF key \in CacheKeys(c)
    THEN [cache |-> c, found |-> TRUE, value |-> c[CacheIndex(c, key)].value]
    ELSE [cache |-> c, found |-> FALSE, value |-> NoValue]

\* LRUCache.get: the cache after the call and the value returned (None: found = FALSE)
LRUCache_get(c, key) ==
    IF key \in CacheKeys(c)
    THEN [cache |-> move_to_end(c, key), found |-> TRUE,
          value |-> c[CacheIndex(c, key)].value]
    ELSE [cache |-> c, found |-> FALSE, value |-> NoValue]

\* LRUCache.put: the cache after the call; popitem raises KeyError on an
\* empty OrderedDict (max_size <= 0) and the entry is then not stored
LRUCache_put(c, max_size, key, value) ==
    IF key \in CacheKeys(c)
    THEN [cache |-> RemoveAt(c, CacheIndex(c, key)) \o <<[key |-> key, value |-> value]>>,
          raised |-> FALSE]
    ELSE IF Len(c) >= max_size
    THEN IF Len(c) = 0
         THEN [cache |-> c, raised |-> TRUE]
         ELSE [cache |-> Tail(c) \o <<[key |-> key, value |-> value]>>, raised |-> FALSE]
    ELSE [cache |-> c \o <<[key |-> key, value |-> value]>>, raised |-> FALSE]

\* the keys in the order they were last touched by a get that found them or
\* by a put, oldest first (an observation, kept beside the cache)
Touch(recency, key) ==
    SelectSeq(recency, LAMBDA k : k # key) \o <<key>>

\* the entry of c that was touched longest ago
LeastRecentlyTouched(c, recency) ==
    LET present == SelectSeq(recency, LAMBDA k : k \in CacheKeys(c))
    IN  Head(present)

NoPrev == [name |-> "none", key |-> "", found |-> FALSE]
NoOp == [name |-> "none", key |-> "", found |-> FALSE, raised |-> FALSE,
         before |-> <<>>, lru |-> "", prev |-> NoPrev]

(***************************************************************************)
(* HttpClient.get                                                          *)
(***************************************************************************)
CHUNK_SIZE == 8192
MAX_FILE_SIZE == 10485760
MaxChunks == 5
DefaultCacheSize == 128

Response(status, ct, content, length) ==
    [status_code |-> status, content_type |-> ct, content |-> content,
     content_length |-> length]
NoResponse == Response(0, "", BEmpty, 0)

\* extensions of _check_if_likely_large_file that the model's URLs use
LargeFileExtensions == {"zip", "pdf", "bak", "xlsx", "gz"}
check_if_likely_large_file(url) == UrlExtension(url) \in LargeFileExtensions

\* the members of _large_content_types among the model's content types
LargeContentTypes == {"application/pdf", "application/zip"}

\* (mutant) a partial fetch that reads the body to its end
FirstChunks_All(content, n) == content

\* the first n chunks of a body
FirstChunks(content, n) ==
    IF content.len <= n * CHUNK_SIZE THEN content
    ELSE [content EXCEPT !.len = n * CHUNK_SIZE,
                         !.full = IF n = 1 THEN "dHead1" ELSE "dHeadN",
                         !.edge = IF n = 1 THEN "dHead1" ELSE "dHeadN"]

\* what the network does during one call: the HEAD request, the GET
\* (ranged, streamed or plain) and the response the server would send
NoLength == -1
Net(head, head_length, range, stream, get, response) ==
    [head |-> head, head_length |-> head_length, range |-> range,
     stream |-> stream, get |-> get, response |-> response]

\* lines 313-342: the HEAD probe decides whether the file is large
IsLarge(url, net) ==
    /\ net.head = "ok"
    /\ \/ net.head_length # NoLength /\ net.head_length > MAX_FILE_SIZE
       \/ net.head_length = NoLength
            /\ ContentTypeBase(net.response.content_type) \in LargeContentTypes
       \/ check_if_likely_large_file(url)

HttpResult(success, response, error, large) ==
    [success |-> success, response |-> response, error |-> error,
     large_file |-> large, partial_content |-> large, from_network |-> TRUE]

\* (mutant) failures reported without an error string
RequestError_Blank(kind) == ""

\* lines 419-429: the handlers of the outer try
RequestError(kind) ==
    CASE kind = "timeout"    -> "Request timed out"
      [] kind = "ssl"        -> "SSL verification failed"
      [] kind = "connection" -> "Connection error"
      [] kind = "request"    -> "Request error"
      [] OTHER               -> "Unexpected error"

\* lines 303-431: the result the network part of get() builds.  The HEAD
\* request ends with "ok", with a RequestException ("fail": line 339 goes on
\* to the GET) or with another exception ("other": line 427 reports it).
Fetch(url, net) ==
    IF net.head = "other"
    THEN HttpResult(FALSE, NoResponse, RequestError("other"), FALSE)
    ELSE IF IsLarge(url, net)
    THEN IF net.range = "ok"
         THEN HttpResult(TRUE, [net.response EXCEPT !.content = FirstChunks(@, 1)], "", TRUE)
         ELSE IF net.stream = "ok"
         THEN HttpResult(TRUE, [net.response EXCEPT !.content = FirstChunks(@, MaxChunks)], "", TRUE)
         ELSE HttpResult(FALSE, NoResponse, "Failed to fetch partial content", FALSE)
    ELSE IF net.get = "ok"
    THEN HttpResult(TRUE, net.response, "", FALSE)
    ELSE HttpResult(FALSE, NoResponse, RequestError(net.get), FALSE)

\* lines 262 and 434, "if self.request_cache": the truth value of an
\* LRUCache is that of its __len__, so an empty cache counts as false
CacheIsUsable(h) == h.use_cache /\ Len(h.cache) > 0

CachedResult(result) ==
    [success |-> result.success, status_code |-> result.response.status_code,
     content_type |-> result.response.content_type,
     content_length |-> result.response.content_length, error |-> result.error]

\* lines 269-282: what a cache hit returns
FromCache(cached) ==
    [success |-> cached.success,
     response |-> Response(cached.status_code, cached.content_type, BEmpty,
                           cached.content_length),
     error |-> cached.error, large_file |-> FALSE, partial_content |-> FALSE,
     from_network |-> FALSE]

\* HttpClient.get(url): the client after the call and the result returned
HttpClient_get(h, url, net) ==
    LET looked == IF CacheIsUsable(h) THEN LRUCache_get(h.cache, url)
                  ELSE [cache |-> h.cache, found |-> FALSE, value |-> NoValue]
        fetched == Fetch(url, net)
        h1 == [h EXCEPT !.cache = looked.cache]
        stored == IF CacheIsUsable(h1) /\ fetched.success
                  THEN LRUCache_put(h1.cache, h1.max_size, url, CachedResult(fetched)).cache
                  ELSE h1.cache
        \* line 445 is outside the try: what put raises leaves get()
        raised == /\ ~looked.found
                  /\ CacheIsUsable(h1) /\ fetched.success
                  /\ LRUCache_put(h1.cache, h1.max_size, url, CachedResult(fetched)).raised
    IN  IF looked.found
        THEN [http |-> [h1 EXCEPT !.cache_hits = @ + 1],
              result |-> FromCache(looked.value), raised |-> FALSE]
        ELSE [http |-> [h1 EXCEPT !.cache_misses = @ + 1, !.cache = stored],
              result |-> fetched, raised |-> raised]

\* the latest call of get(): its URL and what the network did
NoCall == [url |-> Url("", ""), net |-> Net("", NoLength, "", "", "", NoResponse)]

IdleHttp == [cache |-> <<>>, max_size |-> 0, use_cache |-> FALSE,
             cache_hits |-> 0, cache_misses |-> 0,
             recency |-> <<>>, ops |-> 0, op |-> NoOp,
             gets |-> EmptyDict, fetches |-> EmptyDict,
             returned |-> HttpResult(FALSE, NoResponse, "", FALSE),
             raised |-> FALSE, called |-> NoCall]

(***************************************************************************)
(* LeftOver: filters, extension ordering and the servers it is run against *)
(***************************************************************************)
NoLimit == -1
DirectLimit == 5
BaselineProbes == 4
IGNORE_CONTENT == {"text/html"}
ImportantExtensions == {"pdf", "docx", "xlsx", "pptx", "zip", "rar", "tar.gz", "tar"}

RECURSIVE Flatten(_)
Flatten(seqs) == IF seqs = <<>> THEN <<>> ELSE Head(seqs) \o Flatten(Tail(seqs))

\* ExtensionOptimizer's priority classes, for the extensions the model uses
HighPriority == {"bak", "zip", "sql", "tar"}
MediumPriority == {"pdf", "txt"}
LowPriority == {"php~"}

\* _analyze_target_context: the hostnames and paths of the model in which a
\* backup indicator or a development indicator occurs
HostsWithBackupIndicator == {"dev.example.com"}
PathsWithBackupIndicator == {"/backup"}
HostsWithDevIndicator == {"dev.example.com", "beta.example.com"}
analyze_target_context(target_url) ==
    [likely_backup_site |-> \/ target_url.hostname \in HostsWithBackupIndicator
                            \/ target_url.path \in PathsWithBackupIndicator,
     likely_development |-> target_url.hostname \in HostsWithDevIndicator]
NoContext == [likely_backup_site |-> FALSE, likely_development |-> FALSE]

\* _sort_by_backup_likelihood: backup_priority.get(x, 0)
backup_priority(x) ==
    IF x = "sql" THEN 10 ELSE IF x = "zip" THEN 9 ELSE IF x = "bak" THEN 8
    ELSE IF x = "tar" THEN 7 ELSE 0
BackupPriorityLevels == << 10, 9, 8, 7, 6, 0 >>

\* (mutant) a sort that first removes the duplicates
sort_by_backup_likelihood_Unique(extensions) ==
    LET first == SelectSeq([i \in 1..Len(extensions) |-> i],
                           LAMBDA i : \A j \in 1..(i - 1) : extensions[j] # extensions[i])
        unique == [k \in 1..Len(first) |-> extensions[first[k]]]
    IN  Flatten([l \in 1..Len(BackupPriorityLevels) |->
            SelectSeq(unique, LAMBDA e : backup_priority(e) = BackupPriorityLevels[l])])

\* sorted(extensions, key=priority, reverse=True): a stable sort, the
\* extensions of a level keep the order they had
sort_by_backup_likelihood(extensions) ==
    Flatten([l \in 1..Len(BackupPriorityLevels) |->
        SelectSeq(extensions, LAMBDA e : backup_priority(e) = BackupPriorityLevels[l])])

\* optimize_extensions lines 35-83, given the context of the target
optimize_extensions_in(extensions, context) ==
    LET high_priority_exts == SelectSeq(extensions, LAMBDA e : e \in HighPriority)
        medium_priority_exts ==
            SelectSeq(extensions, LAMBDA e : e \notin HighPriority /\ e \in MediumPriority)
        low_priority_exts ==
            SelectSeq(extensions, LAMBDA e : e \notin HighPriority \cup MediumPriority
                                              /\ e \in LowPriority)
        unknown_exts ==
            SelectSeq(extensions,
                      LAMBDA e : e \notin HighPriority \cup MediumPriority \cup LowPriority)
    IN  IF extensions = <<>> THEN extensions
        ELSE IF context.likely_backup_site
        THEN sort_by_backup_likelihood(high_priority_exts) \o medium_priority_exts
             \o unknown_exts \o low_priority_exts
        ELSE IF context.likely_development
        THEN medium_priority_exts \o high_priority_exts \o unknown_exts
             \o low_priority_exts
        ELSE high_priority_exts \o medium_priority_exts \o unknown_exts
             \o low_priority_exts

\* optimize_extensions for a target without backup or development keywords
optimize_extensions(extensions) == optimize_extensions_in(extensions, NoContext)

\* process_url line 343: important_exts_to_test
ImportantToTest(extensions) ==
    SelectSeq(optimize_extensions(extensions), LAMBDA e : e \in ImportantExtensions)

\* process_url lines 449-453: the extensions the second direct loop requests
DirectToTest(extensions) ==
    IF Len(optimize_extensions(extensions)) <= DirectLimit
    THEN SelectSeq(optimize_extensions(extensions), LAMBDA e : e \notin ImportantExtensions)
    ELSE <<>>

\* ScanResult.check_ignored_content_type
check_ignored_content_type(ct) ==
    ct # "" /\ ContentTypeBase(ct) \in IGNORE_CONTENT

\* _test_single_url lines 244-248 (the model has no "type+suffix" content types)
IgnoredByOption(ct, ignore_content) ==
    ignore_content # {} /\ ct # "" /\ ContentTypeBase(ct) \in ignore_content

\* _test_single_url lines 229-248: the cascading filters
PassesFilters(c, status, ct, length) ==
    /\ ~(c.status_filter # {} /\ status \notin c.status_filter)
    /\ ~(c.min_content_length # NoLimit /\ length < c.min_content_length)
    /\ ~(c.max_content_length # NoLimit /\ length > c.max_content_length)
    /\ ~check_ignored_content_type(ct)
    /\ ~IgnoredByOption(ct, c.ignore_content)

\* (mutant) appending whatever the classifier said
ShouldReport_Always(c, status, fp) == TRUE

\* (mutant) disable_fp honoured for the success statuses only
ShouldReport_SuccessOnly(c, status, fp) ==
    IF status \in SUCCESS_STATUSES THEN c.disable_fp \/ ~fp ELSE ~fp

\* _test_single_url lines 278-305: is the result appended to results
ShouldReport(c, status, fp) ==
    IF status \in SUCCESS_STATUSES THEN c.disable_fp \/ ~fp
    ELSE IF c.disable_fp THEN TRUE
    ELSE ~fp

\* a response whose Content-Length header is the length of its body
Page(status, ct, content) == Response(status, ct, content, content.len)
\* no response at all: the connection fails
Down == Response(0, "", BEmpty, NoLength)

\* the network seen by HttpClient.get when the server answers with r
NetOf(r) ==
    IF r.status_code = 0
    THEN Net("fail", NoLength, "fail", "fail", "connection", NoResponse)
    ELSE Net("ok", r.content_length, "ok", "ok", "ok", r)

\* establish_baseline: main page and the fingerprints of the random paths
EstablishBaseline(server) ==
    [main_page |-> IF server.main.status_code = 0 THEN NoMainPage
                   ELSE MainPageOf(server.main.content_type, server.main.content),
     baseline_responses |->
        IF server.notfound.status_code = 0 THEN EmptyDict
        ELSE [st \in {server.notfound.status_code} |->
                [i \in 1..BaselineProbes |->
                    BaselineEntryOf(server.notfound.content_type,
                                    server.notfound.content)]]]

\* generate_test_urls for a target "scheme://host/<segment>": the base
\* URLs in the order of their groups (one batch per test type)
\* "a" is a path on a host without public suffix; "b" is one on a host
\* "host.com", which adds the Domain test; "deep" stands for a path of
\* DeepLevels + 1 segments scanned in recursive brute-force mode with one
\* word, of which the Full URL and the brute-force group are kept
DeepTarget == "deep"
DeepLevels == 101
TargetsWithSuffix == {"b"}
LevelBase(i) == "level" \o ToString(i)
DeepBases == { LevelBase(i) : i \in 1..DeepLevels }
TestUrlsOf(target) ==
    IF target = DeepTarget
    THEN << [base |-> target, test_type |-> "Full URL"] >> \o
         [i \in 1..DeepLevels |->
             [base |-> LevelBase(i), test_type |-> "Brute Force Recursive: backup"]]
    ELSE << [base |-> target, test_type |-> "Full URL"],
            [base |-> "host", test_type |-> "Domain Name"] >> \o
         (IF target \in TargetsWithSuffix
          THEN << [base |-> "host.com", test_type |-> "Domain"] >>
          ELSE << >>)

(***************************************************************************)
(* generate_test_urls: the candidate lists of the generation tasks.  A     *)
(* target is what urlparse and tldextract make of the URL: scheme, netloc, *)
(* subdomain, domain, suffix and the segments of the stripped path.        *)
(***************************************************************************)
COMMON_IP_PATH_TESTS ==
    << "admin", "dashboard", "api", "app", "backup", "config", "data",
       "files", "logs", "private", "public", "system", "temp", "upload" >>
COMMON_PORTS == << "8080", "8443", "9000" >>

\* the hostnames of the model that IP_PATTERN matches
IpHostnames == {"10.0.0.1"}
is_ip_address(hostname) == hostname \in IpHostnames

\* the path segments and wordlist words of the model that contain a '.'
DottedNames == {"app.php", "db.sql", ".env", ".git", "x.env.dev", "prod.env"}
HasDot(name) == name \in DottedNames

Test(url, test_type) == [url |-> url, test_type |-> test_type]

RECURSIVE JoinWith(_, _)
JoinWith(parts, sep) ==
    IF parts = <<>> THEN ""
    ELSE IF Len(parts) = 1 THEN parts[1]
    ELSE parts[1] \o sep \o JoinWith(Tail(parts), sep)

\* f"{scheme}://{full_hostname}"
RootOf(t) == t.scheme \o "://" \o t.hostname
\* path_label: the stripped path, None (here "") when it is empty
PathLabel(t) == JoinWith(t.segments, "/")
\* subdomain.split('.')
SubdomainLabels(t) == t.subdomain
SubdomainOf(t) == JoinWith(t.subdomain, ".")

\* lines 172-193
generate_base_tests(t) ==
    IF PathLabel(t) # ""
    THEN << Test(RootOf(t) \o "/" \o PathLabel(t), "Full URL"),
            Test(RootOf(t) \o "/" \o PathLabel(t), "Path") >>
         \o Flatten([i \in 1..Len(t.segments) |->
               IF HasDot(t.segments[i]) THEN <<>>
               ELSE << Test(RootOf(t) \o "/" \o t.segments[i],
                            "Segment " \o ToString(i)) >>])
    ELSE <<>>

\* lines 220-278, for a subdomain whose parts are its labels
Permutation(n, pattern) ==
    [pattern |-> pattern,
     description |-> "Permutation " \o ToString(n) \o " (" \o pattern \o ")"]
Combination(name, pattern) ==
    [pattern |-> pattern, description |-> name \o ": " \o pattern]

generate_subdomain_permutation_tests(t) ==
    LET parts == SubdomainLabels(t)
        a == parts[1]
        b == parts[2]
        two == << Permutation(1, a \o "." \o b), Permutation(2, a \o "_" \o b),
                  Permutation(3, a \o b), Permutation(4, b \o "." \o a),
                  Permutation(5, b \o "_" \o a), Permutation(6, b \o a),
                  Permutation(7, a), Permutation(8, b) >>
        three ==
            IF Len(parts) >= 3
            THEN LET c == parts[3]
                 IN  << Combination("3-Part All", a \o b \o c),
                        Combination("3-Part Alt1", a \o c \o b),
                        Combination("3-Part Alt2", b \o a \o c),
                        Combination("3-Part Alt3", b \o c \o a),
                        Combination("3-Part Alt4", c \o a \o b),
                        Combination("3-Part Alt5", c \o b \o a),
                        Combination("Parts 1+3", a \o c),
                        Combination("Parts 2+3", b \o c),
                        Combination("Parts 3+1", c \o a),
                        Combination("Parts 3+2", c \o b),
                        Combination("3rd Part Only", c),
                        Combination("3-Part Dots", a \o "." \o b \o "." \o c),
                        Combination("3-Part Underscores", a \o "_" \o b \o "_" \o c) >>
            ELSE <<>>
        permutations == two \o three
    IN  IF Len(parts) >= 2
        THEN [i \in 1..Len(permutations) |->
                 Test(RootOf(t) \o "/" \o permutations[i].pattern,
                      permutations[i].description)]
        ELSE <<>>

\* lines 195-218
generate_domain_tests(t) ==
    [i \in 1..Len(SubdomainLabels(t)) |->
        Test(RootOf(t) \o "/" \o SubdomainLabels(t)[i],
             "Subdomain:" \o SubdomainLabels(t)[i])]
    \o (IF t.domain # ""
        THEN << Test(RootOf(t) \o "/" \o t.domain, "Domain Name") >> ELSE <<>>)
    \o (IF t.domain # "" /\ t.suffix # ""
        THEN << Test(RootOf(t) \o "/" \o t.domain \o "." \o t.suffix, "Domain") >>
        ELSE <<>>)
    \o (IF Len(SubdomainLabels(t)) >= 2
        THEN generate_subdomain_permutation_tests(t) ELSE <<>>)

\* the subdomain labels of the model longer than two characters
LongLabels == {"dev", "www"}

\* lines 280-317
generate_leftover_tests(t) ==
    LET root == RootOf(t)
        domainPatterns == << "backup", "old", "bak", "temp" >>
        backupPatterns == << "backup", "old", "bak" >>
        common_patterns == << "backup", "bak", "old", "temp", "archive", "test" >>
        common_envs == << "dev", "test", "staging", "prod", "debug" >>
        labels == SelectSeq(SubdomainLabels(t), LAMBDA l : l \in LongLabels)
        path_base == IF t.segments = <<>> THEN "" ELSE t.segments[Len(t.segments)]
    IN  (IF t.domain # ""
         THEN Flatten([i \in 1..Len(domainPatterns) |->
                << Test(root \o "/" \o t.domain \o "_" \o domainPatterns[i],
                        "Domain Backup: " \o t.domain \o "_" \o domainPatterns[i]),
                   Test(root \o "/" \o domainPatterns[i] \o "_" \o t.domain,
                        "Backup Domain: " \o domainPatterns[i] \o "_" \o t.domain) >>])
         ELSE <<>>)
        \o Flatten([l \in 1..Len(labels) |->
              [i \in 1..Len(backupPatterns) |->
                  Test(root \o "/" \o labels[l] \o "_" \o backupPatterns[i],
                       "Subdomain Backup: " \o labels[l] \o "_" \o backupPatterns[i])]])
        \o (IF PathLabel(t) # ""
            THEN [i \in 1..Len(backupPatterns) |->
                     Test(root \o "/" \o path_base \o "_" \o backupPatterns[i],
                          "Path Backup: " \o path_base \o "_" \o backupPatterns[i])]
            ELSE <<>>)
        \o [i \in 1..Len(common_patterns) |->
               Test(root \o "/" \o common_patterns[i],
                    "Common Leftover: " \o common_patterns[i])]
        \o [i \in 1..Len(common_envs) |->
               Test(root \o "/" \o common_envs[i], "Environment: " \o common_envs[i])]

\* lines 385-402: the proper prefixes of the path
generate_partial_paths(segments) ==
    [k \in 1..(IF segments = <<>> THEN 0 ELSE Len(segments) - 1) |->
        JoinWith(SubSeq(segments, 1, k), "/")]

\* lines 422-437: the full path, then every prefix that differs from it
generate_path_levels(segments, path_label) ==
    << path_label >>
    \o SelectSeq([k \in 1..Len(segments) |-> JoinWith(SubSeq(segments, 1, k), "/")],
                 LAMBDA level : level # path_label)

\* lines 404-420 (prefix "Path-") and 439-459 (prefix "Path-Current-")
test_domain_in_path(t, path, prefix) ==
    (IF SubdomainOf(t) # ""
     THEN << Test(RootOf(t) \o "/" \o path \o "/" \o SubdomainOf(t),
                  prefix \o "Subdomain: /" \o path) >> ELSE <<>>)
    \o (IF t.domain # ""
        THEN << Test(RootOf(t) \o "/" \o path \o "/" \o t.domain,
                     prefix \o "Domain-Name: /" \o path) >> ELSE <<>>)
    \o (IF t.domain # "" /\ t.suffix # ""
        THEN << Test(RootOf(t) \o "/" \o path \o "/" \o t.domain \o "." \o t.suffix,
                     prefix \o "Domain: /" \o path) >> ELSE <<>>)

test_domain_in_path_level(t, level) ==
    test_domain_in_path(t, level, "Path-Current-")
    \o << Test(RootOf(t) \o "/" \o level \o "/" \o t.hostname,
               "Path-Current-Hostname: /" \o level) >>

\* "/{path_label}/{segment}" for every segment that is not a file name
CurrentPathTests(t, tag) ==
    Flatten([i \in 1..Len(t.segments) |->
        IF HasDot(t.segments[i]) THEN <<>>
        ELSE << Test(RootOf(t) \o "/" \o PathLabel(t) \o "/" \o t.segments[i],
                     tag \o t.segments[i]) >>])

\* lines 319-340
generate_path_tests(t) ==
    LET path_bases == generate_partial_paths(t.segments)
        path_levels == generate_path_levels(t.segments, PathLabel(t))
    IN  Flatten([i \in 1..Len(path_bases) |->
                    test_domain_in_path(t, path_bases[i], "Path-")])
        \o CurrentPathTests(t, "Path-Current-Path: /")
        \o Flatten([i \in 1..Len(path_levels) |->
                       test_domain_in_path_level(t, path_levels[i])])

\* lines 342-383
generate_ip_path_tests(t) ==
    LET root == RootOf(t)
        path_levels == generate_path_levels(t.segments, PathLabel(t))
    IN  Flatten([i \in 1..Len(t.segments) |->
            IF HasDot(t.segments[i]) THEN <<>>
            ELSE << Test(root \o "/" \o t.segments[i],
                         "IP-Path-Segment: " \o t.segments[i]) >>])
        \o CurrentPathTests(t, "IP-Path-Current-Path: /")
        \o Flatten([l \in 1..Len(path_levels) |->
              [i \in 1..Len(COMMON_IP_PATH_TESTS) |->
                  Test(root \o "/" \o path_levels[l] \o "/" \o COMMON_IP_PATH_TESTS[i],
                       "IP-Path-Common: /" \o path_levels[l] \o "/"
                          \o COMMON_IP_PATH_TESTS[i])]
              \o << Test(root \o "/" \o path_levels[l] \o "/" \o t.hostname,
                         "IP-Path-Self: /" \o path_levels[l] \o "/" \o t.hostname) >>
              \o [i \in 1..Len(COMMON_PORTS) |->
                     Test(root \o "/" \o path_levels[l] \o "/" \o COMMON_PORTS[i],
                          "IP-Path-Port: /" \o path_levels[l] \o "/" \o COMMON_PORTS[i])]])
        \o (IF t.segments = <<>>
            THEN [i \in 1..Len(COMMON_IP_PATH_TESTS) |->
                     Test(root \o "/" \o COMMON_IP_PATH_TESTS[i],
                          "IP-Root-Common: /" \o COMMON_IP_PATH_TESTS[i])]
            ELSE <<>>)

\* the words of the model for which word.startswith('.') holds, and those
\* that contain '.env.', '.env' and '.git'
WordsStartingWithDot == {".env", ".git"}
WordsContainingEnvDot == {"x.env.dev"}
WordsContainingEnv == {".env", "x.env.dev", "prod.env"}
WordsContainingGit == {".git"}
\* the words that lines 469-472 remove for an IP target: those that start
\* with '.' or contain '.env.' or '.git'
IpFilteredWords ==
    WordsStartingWithDot \cup WordsContainingEnvDot \cup WordsContainingGit
\* the words of the model that lines 478-487 take to carry a file extension
WordsWithExtension == {"db.sql", ".env", ".git", "x.env.dev", "prod.env"}

\* lines 461-533
generate_brute_force_tests(t, backup_words, brute_recursive) ==
    LET filtered == IF is_ip_address(t.hostname)
                    THEN SelectSeq(backup_words, LAMBDA w : w \notin IpFilteredWords)
                    ELSE backup_words
        words == SelectSeq(filtered, LAMBDA w : w \in WordsWithExtension)
                 \o SelectSeq(filtered, LAMBDA w : w \notin WordsWithExtension)
        leaf == IF PathLabel(t) # "" THEN RootOf(t) \o "/" \o PathLabel(t)
                ELSE RootOf(t)
        partial == generate_partial_paths(t.segments)
        levels == << RootOf(t) >>
                  \o [i \in 1..Len(partial) |-> RootOf(t) \o "/" \o partial[i]]
    IN  [i \in 1..Len(words) |-> Test(leaf \o "/" \o words[i], "Brute Force: " \o words[i])]
        \o (IF brute_recursive /\ t.segments # <<>>
            THEN Flatten([l \in 1..Len(levels) |->
                    [i \in 1..Len(words) |->
                        Test(levels[l] \o "/" \o words[i],
                             "Brute Force Recursive: " \o words[i])]])
            ELSE <<>>)

\* lines 118-136: the tasks handed to the pool, in the order of submission
GenerationTasks(t) ==
    << [func |-> "base", todo |-> generate_base_tests(t)] >>
    \o (IF ~is_ip_address(t.hostname)
        THEN << [func |-> "domain", todo |-> generate_domain_tests(t)] >> ELSE <<>>)
    \o << [func |-> "leftover", todo |-> generate_leftover_tests(t)] >>
    \o (IF PathLabel(t) # ""
        THEN IF is_ip_address(t.hostname)
             THEN << [func |-> "ip_path", todo |-> generate_ip_path_tests(t)] >>
             ELSE << [func |-> "path", todo |-> generate_path_tests(t)] >>
        ELSE <<>>)

\* lines 112-115, add_test run without interruption
add_test(g, test) ==
    IF test.url \notin g.added_urls
    THEN [g EXCEPT !.added_urls = @ \cup {test.url},
                   !.tests = @ (+) SetToBag({test})]
    ELSE g

RECURSIVE AddAll(_, _)
AddAll(g, todo) ==
    IF todo = <<>> THEN g ELSE AddAll(add_test(g, Head(todo)), Tail(todo))

(***************************************************************************)
(* State.                                                                  *)
(***************************************************************************)
VARIABLES
    \* LeftOver: configuration and scan state
    cfg,                \* constructor arguments and the list of targets
    results,            \* self.results
    found_urls,         \* self.found_urls
    tested_urls,        \* self.tested_urls
    stats,              \* self.stats
    size_frequency,     \* self._size_frequency
    hash_frequency,     \* self._hash_frequency
    main_page,          \* self._main_page
    baseline_responses, \* self.baseline_responses
    main,               \* the thread running process_url: where it is
    workers,            \* the pool threads running test_url
    \* observations
    baseline_for,       \* the target whose baseline is in main_page/baseline_responses
    classifications,    \* calls of check_false_positive so far
    last,               \* the ScanResult of the latest check_false_positive call
    \* HttpClient and its LRUCache
    http,               \* cache, counters and the calls that reached the network
    \* HttpClient's rate gate and the threads calling get() through it
    gate,
    \* one call of generate_test_urls: its locals and its pool threads
    gen,
    \* cli.main around the scan: the SIGINT handler, the exit, the export
    cli,
    \* observation: what the unlocked counters would hold had no update been lost
    ledger,
    \* one call of ExtensionOptimizer.optimize_extensions
    optimizer

clsVars  == <<size_frequency, hash_frequency, main_page, baseline_responses>>
scanVars == <<cfg, results, found_urls, tested_urls, stats, main, workers, baseline_for,
             cli, ledger, optimizer>>
vars == <<cfg, results, found_urls, tested_urls, stats, size_frequency,
          hash_frequency, main_page, baseline_responses, main, workers,
          baseline_for, classifications, last, http, gate, gen, cli, ledger,
          optimizer>>

\* a ScanResult after lines 273-274 set the classifier's answer
ScanResult(url, status, ct, length, test_type, v) ==
    [url |-> url, status_code |-> status, content_type |-> ct,
     content_length |-> length, test_type |-> test_type,
     content_hash |-> v.content_hash,
     false_positive |-> v.fp, false_positive_reason |-> v.reason]

NoResult == [url |-> Url("", ""), status_code |-> 0, content_type |-> "",
             content_length |-> 0, test_type |-> "", content_hash |-> "",
             false_positive |-> FALSE, false_positive_reason |-> ""]
\* the latest call of check_false_positive: its result and body, the target
\* being processed and the target whose baseline was in place (0: none)
NoLast == [result |-> NoResult, content |-> BEmpty, target |-> 0, baseline |-> 0]

MaxWorkers == 2
\* loaded: the counter value a thread has read for the += it is executing
\* batch: the number of the batch whose executor runs the future
IdleWorker == [pc |-> "idle", url |-> Url("", ""), test_type |-> "",
               success |-> FALSE, response |-> NoResponse, result |-> NoResult,
               loaded |-> 0, batch |-> 0]
\* groups: the test types still to come; batches: the batches of the current
\* type still to come; batch: the number of batches submitted for the target
IdleMain == [pc |-> "idle", target |-> 0, ext |-> 0, queue |-> <<>>, groups |-> <<>>,
             batches |-> <<>>, test_type |-> "", batch |-> 0]
NoFilters == [status_filter |-> {}, min_content_length |-> NoLimit,
              max_content_length |-> NoLimit, ignore_content |-> {}]
NoServer == [pages |-> EmptyDict, main |-> Down, notfound |-> Down, refused |-> {}]
\* entry: "url" for process_url, "list" for process_url_list
IdleCfg == [disable_fp |-> FALSE, filters |-> NoFilters, extensions |-> <<>>,
            targets |-> <<>>, server |-> NoServer, entry |-> "url",
            max_workers |-> MaxWorkers]

\* cli.main not running: no output file, no signal, nothing exported
NoExit == -1
NoUrl == [hostname |-> "", path |-> ""]
IdleOptimizer == [phase |-> "idle", extensions |-> <<>>, target_url |-> NoUrl,
                  optimized |-> <<>>]
IdleCli == [pc |-> "idle", output |-> FALSE, interrupted |-> FALSE,
            exit_code |-> NoExit, exported |-> FALSE, written |-> <<>>]
\* probed: the URLs a pool thread has requested; raised: those whose probe
\* ended in the except clause of _test_single_url
\* batches: the batches submitted for the current target, in order;
\* observed: the URLs check_false_positive was called with for the current target
\* the requests that went out: how many each thread has sent, how many
\* in all, and the times and kinds of the last two
NoWire == [sent |-> EmptyDict, count |-> 0, previous |-> 0, last |-> 0,
           previous_kind |-> "", last_kind |-> "", direct |-> 0]
IdleLedger == [requests |-> 0, hits |-> 0, size_frequency |-> EmptyDict,
               probed |-> {}, raised |-> {}, batches |-> <<>>, observed |-> {},
               wire |-> NoWire]

\* a LeftOver that is constructed and never started
ScannerIdle ==
    /\ cli = IdleCli
    /\ ledger = IdleLedger
    /\ optimizer = IdleOptimizer
    /\ cfg = IdleCfg
    /\ results = <<>>
    /\ found_urls = {}
    /\ tested_urls = {}
    /\ stats = [requests |-> 0, hits |-> 0]
    /\ main = IdleMain
    /\ workers = [w \in 1..MaxWorkers |-> IdleWorker]
    /\ baseline_for = 0

\* an HttpClient without rate limit that no thread is calling
NoGateThread == [pc |-> "idle", wake |-> 0, calls |-> 0,
                 first_pass |-> 0]
IdleGate == [rate_limit |-> 0, delay_ms |-> 0, min_request_interval |-> 0,
             now |-> 0, last_request_time |-> 0, lock |-> 0,
             threads |-> <<>>, ticks |-> 0, calls |-> 0, sleeps |-> 0, passes |-> 0,
             previous_pass |-> 0, last_pass |-> 0]

\* generate_test_urls not called
NoTarget == [scheme |-> "", hostname |-> "", subdomain |-> <<>>, domain |-> "",
             suffix |-> "", segments |-> <<>>]
NoBrute == [brute_mode |-> FALSE, backup_words |-> <<>>, brute_recursive |-> FALSE]
IdleGen == [phase |-> "idle", target |-> NoTarget, brute |-> NoBrute,
            added_urls |-> {}, tests |-> EmptyBag, threads |-> <<>>]

(***************************************************************************)
(* The classifier on its own: any sequence of check_false_positive calls   *)
(* over one pair of frequency indexes, for each baseline.                  *)
(***************************************************************************)
MaxClassified == 3

ClassifyUrls == {Url("x", "pdf"), Url("x", "bak"), Url("x", "zip")}

ClassifyResponses ==
    { Response(200, CT_PDF, BPdf, BPdf.len),
      Response(200, CT_HTML, BMain, BMain.len),
      Response(200, CT_HTML, BEmpty, 0),
      Response(404, CT_HTML, BErr, BErr.len),
      Response(404, CT_HTML, BEmpty, 0),
      Response(403, CT_HTML_CS, BErrV, BErrV.len),
      Response(403, CT_HTML, BMain, BMain.len),
      Response(404, CT_PDF, BPdf, BPdf.len),
      Response(200, CT_ZIP, BData, BData.len),
      \* a Content-Length header that disagrees with the body read
      \* (process_url's direct checks take content_length from the header)
      Response(200, CT_HTML, BMain, 0),
      Response(200, CT_HTML, BEmpty, BMain.len) }

Baseline404 == [st \in {404} |-> <<BaselineEntryOf(CT_HTML, BErr)>>]
\* a server that answers a missing page with 404 and a PDF document
BaselinePdf404 == [st \in {404} |-> <<BaselineEntryOf(CT_PDF, BPdf)>>]

ClassifyBaselines ==
    { <<NoMainPage, EmptyDict>>,
      <<MainPageOf(CT_HTML, BMain), Baseline404>>,
      <<MainPageOf(CT_HTML, BEmpty), EmptyDict>>,
      <<MainPageOf(CT_PDF, BPdf), Baseline404>>,
      <<MainPageOf(CT_HTML, BMain), BaselinePdf404>> }

InitClassify ==
    /\ \E b \in ClassifyBaselines : main_page = b[1] /\ baseline_responses = b[2]
    /\ size_frequency = EmptyDict
    /\ hash_frequency = EmptyDict
    /\ classifications = 0
    /\ last = NoLast
    /\ ScannerIdle
    /\ gate = IdleGate
    /\ gen = IdleGen
    /\ http = IdleHttp

\* one call check_false_positive(result, content, baseline, main_page, ...)
ClassifyResponse ==
    \E url \in ClassifyUrls, r \in ClassifyResponses :
        LET res == [url |-> url, status_code |-> r.status_code,
                    content_type |-> r.content_type,
                    content_length |-> r.content_length]
            v == check_false_positive(res, r.content, baseline_responses,
                                      main_page, size_frequency, hash_frequency)
        IN  /\ classifications < MaxClassified
            /\ classifications' = classifications + 1
            /\ size_frequency' = v.size_frequency
            /\ hash_frequency' = v.hash_frequency
            /\ last' = [result |-> ScanResult(url, r.status_code, r.content_type,
                                               r.content_length, "", v),
                        content |-> r.content, target |-> 0, baseline |-> 0]
            /\ UNCHANGED <<gate, gen, main_page, baseline_responses, scanVars, http>>

NextClassify == ClassifyResponse

SpecClassify == InitClassify /\ [][NextClassify]_vars


(***************************************************************************)
(* Claims about check_false_positive (SpecClassify).                       *)
(***************************************************************************)
Classified == classifications > 0

\* C5 (as stated): every response with status 404 is classified as a false
\* positive, whatever its body, content type, baseline and frequency indexes.
C5_Every404IsFalsePositive ==
    (Classified /\ last.result.status_code = 404) => last.result.false_positive

\* C5 (amended): every response with status 404 and a non-zero content
\* length is classified as a false positive, whatever its body, content
\* type, baseline and frequency indexes.
C5_NonEmpty404IsFalsePositive ==
    (Classified /\ last.result.status_code = 404 /\ last.result.content_length # 0)
        => (last.result.false_positive /\ last.result.false_positive_reason = Reason404)

C5_Witness ==
    /\ Classified
    /\ last.result.status_code = 404
    /\ last.result.content_length # 0
    /\ last.content.pdfsig
    /\ last.result.false_positive

\* the response's content hash equals the hash of the main-page fingerprint
HashEqualsMainPage ==
    /\ Classified
    /\ main_page.present
    /\ calculate_content_hash(last.content) = main_page.hash

\* a success status with the PDF magic bytes
RecognizedPdfSignature ==
    last.result.status_code \in SUCCESS_STATUSES /\ last.content.pdfsig

\* C6 (as stated): a response whose content hash equals the main-page hash
\* is a false positive, whatever the status code, baseline and frequency
\* indexes, unless it is a success response with the PDF magic bytes.
C6_MainHashIsFalsePositive ==
    (HashEqualsMainPage /\ ~RecognizedPdfSignature) => last.result.false_positive

\* C6 (amended): the same, for responses with a non-empty body and a
\* non-zero content length.
C6_NonEmptyMainHashIsFalsePositive ==
    (/\ HashEqualsMainPage
     /\ ~RecognizedPdfSignature
     /\ last.content.len # 0
     /\ last.result.content_length # 0) => last.result.false_positive

C6_Witness ==
    /\ HashEqualsMainPage
    /\ last.content.len # 0
    /\ last.result.content_length # 0
    /\ last.result.status_code = 403
    /\ last.result.false_positive
    /\ last.result.false_positive_reason =
          "Response hash matches main page (SPA fallback or site returns same content)"


(***************************************************************************)
(* The LRUCache on its own: any sequence of get and put.                   *)
(***************************************************************************)
MaxCacheSize == 2
MaxCacheOps == 5
LruKeys == {"k1", "k2", "k3"}
LruValues == {[success |-> TRUE, status_code |-> st, content_type |-> CT_HTML,
               content_length |-> 0, error |-> ""] : st \in {200, 404}}

InitLRU ==
    /\ \E m \in 0..MaxCacheSize : http = [IdleHttp EXCEPT !.max_size = m, !.use_cache = TRUE]
    /\ main_page = NoMainPage
    /\ baseline_responses = EmptyDict
    /\ size_frequency = EmptyDict
    /\ hash_frequency = EmptyDict
    /\ classifications = 0
    /\ last = NoLast
    /\ ScannerIdle
    /\ gate = IdleGate
    /\ gen = IdleGen

\* cache.get(key)
LRUGet ==
    \E key \in LruKeys :
        LET r == LRUCache_get(http.cache, key)
        IN  /\ http.ops < MaxCacheOps
            /\ http' = [http EXCEPT
                  !.cache = r.cache,
                  !.ops = @ + 1,
                  !.recency = IF key \in CacheKeys(http.cache) THEN Touch(@, key) ELSE @,
                  !.op = [name |-> "get", key |-> key, found |-> r.found,
                          raised |-> FALSE, before |-> http.cache, lru |-> "",
                          prev |-> [name |-> http.op.name, key |-> http.op.key,
                                    found |-> http.op.found]]]
            /\ UNCHANGED <<gate, gen, clsVars, scanVars, classifications, last>>

\* cache.put(key, value)
LRUPut ==
    \E key \in LruKeys, value \in LruValues :
        LET r == LRUCache_put(http.cache, http.max_size, key, value)
        IN  /\ http.ops < MaxCacheOps
            /\ http' = [http EXCEPT
                  !.cache = r.cache,
                  !.ops = @ + 1,
                  !.recency = IF r.raised THEN @ ELSE Touch(@, key),
                  !.op = [name |-> "put", key |-> key,
                          found |-> key \in CacheKeys(http.cache),
                          raised |-> r.raised, before |-> http.cache,
                          lru |-> IF http.cache = <<>> THEN ""
                                  ELSE LeastRecentlyTouched(http.cache, http.recency),
                          prev |-> [name |-> http.op.name, key |-> http.op.key,
                                    found |-> http.op.found]]]
            /\ UNCHANGED <<gate, gen, clsVars, scanVars, classifications, last>>

NextLRU == LRUGet \/ LRUPut

SpecLRU == InitLRU /\ [][NextLRU]_vars

\* the latest operation was a put of a new key into a full cache
PutIntoFullCache ==
    /\ http.op.name = "put"
    /\ ~http.op.found
    /\ Len(http.op.before) > 0
    /\ Len(http.op.before) >= http.max_size

\* C4: the number of entries never exceeds max_size, and a put of a new key
\* into a full cache removes exactly the entry least recently touched by a
\* get or put, keeps every other entry and adds the new one.
C4_BoundedLruEviction ==
    /\ Len(http.cache) <= http.max_size
    /\ PutIntoFullCache =>
          /\ http.op.lru \notin CacheKeys(http.cache)
          /\ CacheKeys(http.cache) =
                (CacheKeys(http.op.before) \ {http.op.lru}) \cup {http.op.key}
          /\ \A i \in 1..Len(http.op.before) :
                http.op.before[i].key # http.op.lru =>
                    \E j \in 1..Len(http.cache) : http.cache[j] = http.op.before[i]

\* a put evicted an entry that was not the first one inserted: an earlier
\* get had made the first one recent again
C4_Witness ==
    /\ PutIntoFullCache
    /\ http.max_size = 2
    /\ http.op.prev.name = "get" /\ http.op.prev.found /\ http.op.prev.key = "k1"
    /\ http.op.lru = "k2"
    /\ CacheKeys(http.op.before) = {"k1", "k2"}
    /\ http.op.key = "k3"
    /\ CacheKeys(http.cache) = {"k1", "k3"}


(***************************************************************************)
(* The HttpClient on its own: any sequence of get() calls.                 *)
(***************************************************************************)
MaxGets == 2
HttpUrls == {Url("a", "txt"), Url("a", "zip")}
NetResponses == { Response(200, CT_PLAIN, BData, BData.len),
                  Response(404, CT_HTML, BErr, BErr.len),
                  Response(200, CT_ZIP, BBig, BBig.len) }
\* the HEAD request and the Content-Length it declares
HeadOutcomes ==
    { <<"ok", NoLength>>, <<"ok", BData.len>>, <<"ok", MAX_FILE_SIZE + 1>>,
      <<"fail", NoLength>>, <<"other", NoLength>> }
\* the ranged GET, the streamed GET and the plain GET
GetOutcomes ==
    { <<"ok", "ok", "ok">>, <<"fail", "ok", "timeout">>, <<"fail", "fail", "ssl">>,
      <<"ok", "fail", "connection">>, <<"fail", "ok", "request">>,
      <<"ok", "ok", "other">>, <<"fail", "fail", "ok">> }
Nets ==
    { Net(h[1], h[2], g[1], g[2], g[3], r) :
        h \in HeadOutcomes, g \in GetOutcomes, r \in NetResponses }

InitHttp ==
    /\ \E m \in {1, DefaultCacheSize}, uc \in BOOLEAN :
          http = [IdleHttp EXCEPT !.max_size = m, !.use_cache = uc]
    /\ main_page = NoMainPage
    /\ baseline_responses = EmptyDict
    /\ size_frequency = EmptyDict
    /\ hash_frequency = EmptyDict
    /\ classifications = 0
    /\ last = NoLast
    /\ ScannerIdle
    /\ gate = IdleGate
    /\ gen = IdleGen

\* one call http_client.get(url)
HttpGet ==
    \E url \in HttpUrls, net \in Nets :
        LET r == HttpClient_get(http, url, net)
        IN  /\ http.ops < MaxGets
            /\ http' = [r.http EXCEPT
                  !.ops = @ + 1,
                  !.returned = r.result,
                  !.raised = r.raised,
                  !.called = [url |-> url, net |-> net],
                  !.gets = IF r.result.success
                           THEN Store(@, url, Lookup(@, url, 0) + 1) ELSE @,
                  !.fetches = IF r.result.success /\ r.result.from_network
                              THEN Store(@, url, Lookup(@, url, 0) + 1) ELSE @]
            /\ UNCHANGED <<gate, gen, clsVars, scanVars, classifications, last>>

NextHttp == HttpGet

SpecHttp == InitHttp /\ [][NextHttp]_vars

\* C3: with caching enabled, of the successful get() calls for one URL only
\* the first reaches the network; the later ones are answered from the cache.
C3_OnlyFirstGetHitsNetwork ==
    http.use_cache => \A url \in HttpUrls : Lookup(http.fetches, url, 0) <= 1


(***************************************************************************)
(* The scanner: process_url / process_url_list over the configured         *)
(* targets, with the pool threads of one batch running concurrently.       *)
(***************************************************************************)
ModelExtensions == {"pdf", "bak", "zip"}

PlainServer ==
    [pages |-> [e \in ModelExtensions |->
                  IF e = "pdf" THEN Page(200, CT_PDF, BPdf) ELSE Page(404, CT_PLAIN, BErr)],
     main |-> Page(200, CT_HTML, BMain), notfound |-> Page(404, CT_PLAIN, BErr), refused |-> {}]
CatchAllServer ==
    [pages |-> [e \in ModelExtensions |-> Page(200, CT_HTML, BMain)],
     main |-> Page(200, CT_HTML, BMain), notfound |-> Page(200, CT_HTML, BMain), refused |-> {}]
Soft404Server ==
    [pages |-> [e \in ModelExtensions |-> Page(200, CT_HTML, BErr)],
     main |-> Page(200, CT_HTML, BMain), notfound |-> Page(200, CT_HTML, BErr), refused |-> {}]
ForbiddenServer ==
    [pages |-> [e \in ModelExtensions |->
                  IF e = "pdf" THEN Page(403, CT_PLAIN, BErrV) ELSE Page(200, CT_ZIP, BData)],
     main |-> Page(200, CT_HTML, BMain), notfound |-> Page(404, CT_PLAIN, BErr), refused |-> {}]
EmptyServer ==
    [pages |-> [e \in ModelExtensions |->
                  IF e = "pdf" THEN Page(404, CT_PLAIN, BEmpty) ELSE Down],
     main |-> Down, notfound |-> Page(404, CT_PLAIN, BEmpty), refused |-> {}]
TextCatchAllServer ==
    [pages |-> [e \in ModelExtensions |-> Page(200, CT_PLAIN, BMain)],
     main |-> Page(200, CT_PLAIN, BMain), notfound |-> Page(404, CT_PLAIN, BErr), refused |-> {}]
VariantServer ==
    [pages |-> [e \in ModelExtensions |->
                  IF e = "pdf" THEN Page(200, CT_HTML, BMainV) ELSE Page(200, CT_HTML, BMainW)],
     main |-> Page(200, CT_HTML, BMain), notfound |-> Page(404, CT_PLAIN, BErr), refused |-> {}]
\* what the server answers for a candidate URL: nothing on the paths it
\* refuses, its not-found page for a URL probed as it is
PageOf(server, url) ==
    IF url.base \in server.refused THEN Down
    ELSE IF url.ext = "" THEN server.notfound
    ELSE server.pages[url.ext]

Servers == {PlainServer, CatchAllServer, Soft404Server, ForbiddenServer, EmptyServer,
            TextCatchAllServer, VariantServer}

FilterChoices ==
    { NoFilters,
      [NoFilters EXCEPT !.status_filter = {403}],
      [NoFilters EXCEPT !.min_content_length = 1000],
      [NoFilters EXCEPT !.max_content_length = 1000],
      [NoFilters EXCEPT !.ignore_content = {"application/pdf"}] }
ExtensionLists == { <<"pdf", "bak">>, <<"pdf", "pdf">>, <<"bak">>, <<"pdf", "bak", "zip">> }
TargetLists == { <<"a">>, <<"a", "a">> }

\* where process_url stands: in the first direct loop, the second, or past both
AfterDirect(t, j, extensions) ==
    IF j <= Len(DirectToTest(extensions))
    THEN [IdleMain EXCEPT !.pc = "direct", !.target = t, !.ext = j]
    ELSE [IdleMain EXCEPT !.pc = "generate", !.target = t]
AfterImportant(t, i, extensions) ==
    IF i <= Len(ImportantToTest(extensions))
    THEN [IdleMain EXCEPT !.pc = "important", !.target = t, !.ext = i]
    ELSE AfterDirect(t, 1, extensions)
StartTarget(t, extensions) == AfterImportant(t, 1, extensions)

\* the entries of a list at the given indexes, in the order of the list
Picked(seq, indexes) ==
    LET ix == SelectSeq([i \in 1..Len(seq) |-> i], LAMBDA i : i \in indexes)
    IN  [k \in 1..Len(ix) |-> seq[ix[k]]]

\* process_url lines 579-582: test_url_groups, the base URLs of each test
\* type in the order the types first appear
TestTypesOf(test_urls) ==
    LET firsts == { i \in 1..Len(test_urls) :
                      \A j \in 1..(i - 1) : test_urls[j].test_type # test_urls[i].test_type }
    IN  Picked([i \in 1..Len(test_urls) |->
                    IF i \in firsts THEN test_urls[i].test_type ELSE ""],
                firsts)
test_url_groups(test_urls) ==
    [k \in 1..Len(TestTypesOf(test_urls)) |->
        [test_type |-> TestTypesOf(test_urls)[k],
         urls |-> LET of_type == { i \in 1..Len(test_urls) :
                                     test_urls[i].test_type = TestTypesOf(test_urls)[k] }
                  IN  Picked([i \in 1..Len(test_urls) |-> test_urls[i].base], of_type)]]

\* process_url lines 587-589: the slices of batch_size URLs
BATCH_LIMIT == 100
batch_size_Whole(n) == n
batch_size(n) == IF n < BATCH_LIMIT THEN n ELSE BATCH_LIMIT
url_batches(urls_for_type) ==
    LET size == batch_size(Len(urls_for_type))
        count == (Len(urls_for_type) + size - 1) \div size
    IN  [k \in 1..count |->
            SubSeq(urls_for_type, (k - 1) * size + 1,
                   IF k * size < Len(urls_for_type) THEN k * size
                   ELSE Len(urls_for_type))]

\* process_url lines 596-600: the last path segment ends in a dot and two to
\* five alphanumeric characters
BasesWithExtension == {"host.com"}
has_extension(base_url) == base_url \in BasesWithExtension

\* the futures of one batch: for each base URL test_url for each extension;
\* process_url submits a base URL that has an extension as it is, to
\* _test_single_url (lines 602-610), _process_url_without_progress does not
TasksOf(batch, test_type, extensions, entry) ==
    Flatten([k \in 1..Len(batch) |->
        IF entry = "url" /\ has_extension(batch[k])
        THEN << [base |-> batch[k], ext |-> "", test_type |-> test_type,
                 as_is |-> TRUE] >>
        ELSE [i \in 1..Len(optimize_extensions(extensions)) |->
                [base |-> batch[k], ext |-> optimize_extensions(extensions)[i],
                 test_type |-> test_type, as_is |-> FALSE]]])

\* the batch the main thread submits next: the next slice of the current
\* test type, or the first slice of the next type
NextBatchOf(m) ==
    IF m.batches # <<>>
    THEN [test_type |-> m.test_type, urls |-> Head(m.batches)]
    ELSE [test_type |-> Head(m.groups).test_type,
          urls |-> Head(url_batches(Head(m.groups).urls))]
SubmitBatch(m, extensions, entry) ==
    LET b == NextBatchOf(m)
    IN  [m EXCEPT !.pc = "wait",
                  !.queue = TasksOf(b.urls, b.test_type, extensions, entry),
                  !.test_type = b.test_type,
                  !.batch = @ + 1,
                  !.batches = IF m.batches # <<>> THEN Tail(@)
                              ELSE Tail(url_batches(Head(m.groups).urls)),
                  !.groups = IF m.batches # <<>> THEN @ ELSE Tail(@)]

\* process_url lines 392-396 and 482-486: the direct checks' own content filter
DirectIgnored(ct, ignore_content) ==
    ignore_content # {} /\ ContentTypeBase(ct) \in ignore_content

\* process_url lines 399-405: Content-Length header first, body length second
DirectContentLength(r) ==
    IF r.content_length # NoLength THEN r.content_length ELSE r.content.len

RECURSIVE GetEach(_, _, _)
GetEach(h, urls, net) ==
    IF urls = <<>> THEN h
    ELSE GetEach(HttpClient_get(h, Head(urls), net).http, Tail(urls), net)
BaselineUrls == << Url("__non_existent_resource__", ""), Url("__fake_path__", ""),
                  Url("__invalid_endpoint__", ""), Url("not_found", "html") >>
SanityUrls == << Url("nonexistent", ""), Url("fakefile", ""), Url("notreal", "") >>

Init ==
    /\ \E d \in BOOLEAN, f \in FilterChoices, e \in ExtensionLists,
          t \in TargetLists, sv \in Servers :
            /\ cfg = [disable_fp |-> d, filters |-> f, extensions |-> e,
                      targets |-> t, server |-> sv,
                      entry |-> IF Len(t) = 1 THEN "url" ELSE "list",
                      max_workers |-> MaxWorkers]
            /\ main = StartTarget(1, e)
    /\ results = <<>>
    /\ found_urls = {}
    /\ tested_urls = {}
    /\ stats = [requests |-> 0, hits |-> 0]
    /\ workers = [w \in 1..MaxWorkers |-> IdleWorker]
    /\ baseline_for = 0
    /\ main_page = NoMainPage
    /\ baseline_responses = EmptyDict
    /\ size_frequency = EmptyDict
    /\ hash_frequency = EmptyDict
    /\ classifications = 0
    /\ last = NoLast
    /\ http = [IdleHttp EXCEPT !.max_size = DefaultCacheSize, !.use_cache = TRUE]
    /\ gate = IdleGate
    /\ gen = IdleGen
    /\ cli = IdleCli
    /\ ledger = IdleLedger
    /\ optimizer = IdleOptimizer

\* (mutant) a report that leaves found_urls as it is
found_urls_add_Nothing(found, url) == found

\* self.found_urls.add(url)
found_urls_add(found, url) == found \cup {url}

\* the ScanResult fields check_false_positive reads
Probe(url, status, ct, length) ==
    [url |-> url, status_code |-> status, content_type |-> ct,
     content_length |-> length]

\* process_url lines 346-442: one iteration of the loop over the important
\* extensions, a ranged GET on a session of its own
DirectImportantCheck ==
    /\ main.pc = "important"
    /\ LET ext == ImportantToTest(cfg.extensions)[main.ext]
           url == Url(cfg.targets[main.target], ext)
           r == PageOf(cfg.server, url)
           answered == r.status_code # 0
           accepted == /\ answered
                       /\ r.status_code \in {200, 206}
                       /\ ~DirectIgnored(r.content_type, cfg.filters.ignore_content)
           length == DirectContentLength(r)
           v == check_false_positive(Probe(url, r.status_code, r.content_type, length),
                                     r.content, baseline_responses, main_page,
                                     size_frequency, hash_frequency)
           res == ScanResult(url, r.status_code, r.content_type, length, "Direct URL", v)
           report == accepted /\ (cfg.disable_fp \/ ~v.fp)
       IN  /\ main' = AfterImportant(main.target, main.ext + 1, cfg.extensions)
           /\ stats' = [stats EXCEPT !.requests = IF answered THEN @ + 1 ELSE @,
                                     !.hits = IF report THEN @ + 1 ELSE @]
           /\ ledger' = [ledger EXCEPT
                           !.requests = IF answered THEN @ + 1 ELSE @,
                           !.hits = IF report THEN @ + 1 ELSE @,
                           !.observed = IF accepted THEN @ \cup {url} ELSE @,
                           !.size_frequency =
                               IF accepted /\ v.size_frequency # size_frequency
                               THEN Store(@, SizeKey(res), Lookup(@, SizeKey(res), 0) + 1)
                               ELSE @]
           /\ size_frequency' = IF accepted THEN v.size_frequency ELSE size_frequency
           /\ hash_frequency' = IF accepted THEN v.hash_frequency ELSE hash_frequency
           /\ classifications' = IF accepted THEN classifications + 1 ELSE classifications
           /\ last' = IF accepted
                      THEN [result |-> res, content |-> r.content,
                            target |-> main.target, baseline |-> baseline_for]
                      ELSE last
           /\ found_urls' = IF report THEN found_urls_add(found_urls, url) ELSE found_urls
           /\ results' = IF report THEN Append(results, res) ELSE results
    /\ UNCHANGED <<optimizer, gate, gen, cli, cfg, tested_urls, main_page, baseline_responses, workers,
                   baseline_for, http>>

\* process_url lines 449-541: one iteration of the loop over the other
\* extensions, through http_client.get
DirectCheck ==
    /\ main.pc = "direct"
    /\ LET ext == DirectToTest(cfg.extensions)[main.ext]
           url == Url(cfg.targets[main.target], ext)
           g == HttpClient_get(http, url, NetOf(PageOf(cfg.server, url)))
           r == g.result.response
           accepted == /\ g.result.success
                       /\ ~DirectIgnored(r.content_type, cfg.filters.ignore_content)
                       /\ r.status_code \in {200, 206}
           length == DirectContentLength(r)
           v == check_false_positive(Probe(url, r.status_code, r.content_type, length),
                                     r.content, baseline_responses, main_page,
                                     size_frequency, hash_frequency)
           res == ScanResult(url, r.status_code, r.content_type, length, "Direct URL", v)
           report == accepted /\ (cfg.disable_fp \/ ~v.fp)
       IN  /\ main' = AfterDirect(main.target, main.ext + 1, cfg.extensions)
           /\ http' = g.http
           /\ stats' = [stats EXCEPT !.requests = @ + 1,
                                     !.hits = IF report THEN @ + 1 ELSE @]
           /\ ledger' = [ledger EXCEPT
                           !.requests = @ + 1,
                           !.hits = IF report THEN @ + 1 ELSE @,
                           !.observed = IF accepted THEN @ \cup {url} ELSE @,
                           !.size_frequency =
                               IF accepted /\ v.size_frequency # size_frequency
                               THEN Store(@, SizeKey(res), Lookup(@, SizeKey(res), 0) + 1)
                               ELSE @]
           /\ size_frequency' = IF accepted THEN v.size_frequency ELSE size_frequency
           /\ hash_frequency' = IF accepted THEN v.hash_frequency ELSE hash_frequency
           /\ classifications' = IF accepted THEN classifications + 1 ELSE classifications
           /\ last' = IF accepted
                      THEN [result |-> res, content |-> r.content,
                            target |-> main.target, baseline |-> baseline_for]
                      ELSE last
           /\ found_urls' = IF report THEN found_urls_add(found_urls, url) ELSE found_urls
           /\ results' = IF report THEN Append(results, res) ELSE results
    /\ UNCHANGED <<optimizer, gate, gen, cli, cfg, tested_urls, main_page, baseline_responses, workers,
                   baseline_for>>

\* process_url lines 544-613: the frequency indexes are reset, generate_test_urls
\* establishes the baseline and returns the base URLs, the first batch is submitted
GenerateTestUrls ==
    /\ main.pc = "generate"
    /\ LET b == EstablishBaseline(cfg.server)
           h1 == HttpClient_get(http, Url("", ""), NetOf(cfg.server.main)).http
           h2 == GetEach(h1, BaselineUrls \o SanityUrls, NetOf(cfg.server.notfound))
           groups == test_url_groups(TestUrlsOf(cfg.targets[main.target]))
       IN  /\ size_frequency' = EmptyDict
           /\ hash_frequency' = EmptyDict
           /\ ledger' = [ledger EXCEPT
                           !.size_frequency = EmptyDict,
                           !.batches = << NextBatchOf([main EXCEPT !.groups = groups]) >>]
           /\ main_page' = b.main_page
           /\ baseline_responses' = b.baseline_responses
           /\ baseline_for' = main.target
           /\ http' = h2
           /\ main' = SubmitBatch([main EXCEPT !.groups = groups],
                                  cfg.extensions, cfg.entry)
    /\ UNCHANGED <<optimizer, gate, gen, cli, cfg, results, found_urls, tested_urls, stats, workers,
                   classifications, last>>

\* a pool thread starts the next future: test_url lines 165-178 read tested_urls.
\* The pool also runs its queued futures while the executor's with block is
\* left on an exception (shutdown(wait=True)).
TakeTask(w) ==
    /\ main.pc \in {"wait", "shutdown"}
    /\ main.queue # <<>>
    /\ workers[w].pc = "idle"
    /\ w <= cfg.max_workers
    \* the pool's threads are alike: the first idle one is taken to start it
    /\ \A v \in 1..(w - 1) : workers[v].pc # "idle"
    /\ LET task == Head(main.queue)
           url == Url(task.base, task.ext)
       IN  /\ main' = [main EXCEPT !.queue = Tail(@)]
           /\ workers' = IF ~task.as_is /\ url \in tested_urls THEN workers
                         ELSE [workers EXCEPT ![w] =
                                 [IdleWorker EXCEPT
                                    !.pc = IF task.as_is THEN "request" ELSE "add",
                                    !.url = url,
                                    !.test_type = task.test_type,
                                    !.batch = main.batch]]
    /\ UNCHANGED <<optimizer, gate, gen, cli, ledger, cfg, results, found_urls, tested_urls, stats, clsVars,
                   baseline_for, classifications, last, http>>

\* test_url lines 166-179: the URL is added to tested_urls
AddTested(w) ==
    /\ workers[w].pc = "add"
    /\ tested_urls' = tested_urls \cup {workers[w].url}
    /\ workers' = [workers EXCEPT ![w].pc = "request"]
    /\ UNCHANGED <<optimizer, gate, gen, cli, ledger, cfg, results, found_urls, stats, clsVars, main, baseline_for,
                   classifications, last, http>>

\* _test_single_url lines 197-198: http_client.get, then stats['requests']
\* is read for the increment; no lock is held
Request(w) ==
    /\ workers[w].pc = "request"
    /\ LET url == workers[w].url
           g == HttpClient_get(http, url, NetOf(PageOf(cfg.server, url)))
       IN  /\ http' = g.http
           /\ ledger' = [ledger EXCEPT !.probed = @ \cup {url}]
           /\ workers' = [workers EXCEPT ![w].pc = "count",
                                          ![w].success = g.result.success,
                                          ![w].response = g.result.response,
                                          ![w].loaded = stats.requests]
    /\ UNCHANGED <<optimizer, gate, gen, cli, cfg, results, found_urls, tested_urls, stats,
                   clsVars, main, baseline_for, classifications, last>>

\* _test_single_url lines 198-253: the incremented count is stored, then the
\* filters and the look into found_urls
CountRequest(w) ==
    /\ workers[w].pc = "count"
    /\ LET r == workers[w].response
           proceed == /\ workers[w].success
                      /\ PassesFilters(cfg.filters, r.status_code, r.content_type,
                                       r.content.len)
                      /\ workers[w].url \notin found_urls
       IN  /\ stats' = [stats EXCEPT !.requests = workers[w].loaded + 1]
           /\ ledger' = [ledger EXCEPT !.requests = @ + 1]
           /\ workers' = [workers EXCEPT ![w] =
                            IF proceed THEN [@ EXCEPT !.pc = "classify"]
                            ELSE IdleWorker]
    /\ UNCHANGED <<optimizer, gate, gen, cli, cfg, results, found_urls, tested_urls, clsVars, main,
                   baseline_for, classifications, last, http>>

\* the ScanResult a worker hands to check_false_positive
ProbeOf(wk) ==
    Probe(wk.url, wk.response.status_code, wk.response.content_type,
          wk.response.content.len)

\* check_false_positive lines 211-253: the hash is recorded for the URL and,
\* unless an early return comes first, size_frequency[size_key] is read for
\* the increment
Classify(w) ==
    /\ workers[w].pc = "classify"
    /\ LET r == workers[w].response
           hash == calculate_content_hash(r.content)
       IN  hash_frequency' = Store(hash_frequency, hash,
                                   Lookup(hash_frequency, hash, {}) \cup {workers[w].url})
    /\ workers' = [workers EXCEPT
                     ![w].pc = "judge",
                     ![w].loaded = Lookup(size_frequency, SizeKey(ProbeOf(workers[w])), 0)]
    /\ ledger' = [ledger EXCEPT !.observed = @ \cup {workers[w].url}]
    /\ UNCHANGED <<optimizer, gate, gen, cli, cfg, results, found_urls, tested_urls, stats,
                   size_frequency, main_page, baseline_responses, main, baseline_for,
                   classifications, last, http>>

\* the size index as the thread's store leaves it: the count it read, which
\* the rules that follow see incremented
SizeIndexSeenBy(wk) ==
    IF wk.loaded = Lookup(size_frequency, SizeKey(ProbeOf(wk)), 0)
    THEN size_frequency
    ELSE Store(size_frequency, SizeKey(ProbeOf(wk)), wk.loaded)

\* check_false_positive lines 254-369 and _test_single_url lines 264-305: the
\* incremented size count is stored, the rules give the verdict, and the
\* thread that reports reads stats['hits'] for the increment
Judge(w) ==
    /\ workers[w].pc = "judge"
    /\ LET url == workers[w].url
           r == workers[w].response
           seen == SizeIndexSeenBy(workers[w])
           v == check_false_positive(ProbeOf(workers[w]), r.content, baseline_responses,
                                     main_page, seen, hash_frequency)
           res == ScanResult(url, r.status_code, r.content_type, r.content.len,
                             workers[w].test_type, v)
           key == SizeKey(ProbeOf(workers[w]))
       IN  /\ size_frequency' = IF v.size_frequency # seen THEN v.size_frequency
                                 ELSE size_frequency
           /\ hash_frequency' = v.hash_frequency
           /\ ledger' = IF v.size_frequency # seen
                        THEN [ledger EXCEPT !.size_frequency =
                                Store(@, key, Lookup(@, key, 0) + 1)]
                        ELSE ledger
           /\ classifications' = classifications + 1
           /\ last' = [result |-> res, content |-> r.content,
                       target |-> main.target, baseline |-> baseline_for]
           /\ workers' = [workers EXCEPT ![w] =
                            IF ShouldReport(cfg, r.status_code, v.fp)
                            THEN [@ EXCEPT !.pc = "append", !.result = res,
                                           !.loaded = stats.hits]
                            ELSE IdleWorker]
    /\ UNCHANGED <<optimizer, gate, gen, cli, cfg, results, found_urls, tested_urls, stats, main_page,
                   baseline_responses, main, baseline_for, http>>

\* _test_single_url lines 281-282, 295-296, 302-303: the incremented hit count
\* is stored and the URL is added to found_urls
AddFound(w) ==
    /\ workers[w].pc = "append"
    /\ stats' = [stats EXCEPT !.hits = workers[w].loaded + 1]
    /\ ledger' = [ledger EXCEPT !.hits = @ + 1]
    /\ found_urls' = found_urls_add(found_urls, workers[w].url)
    /\ workers' = [workers EXCEPT ![w].pc = "report"]
    /\ UNCHANGED <<optimizer, gate, gen, cli, cfg, results, tested_urls, clsVars, main,
                   baseline_for, classifications, last, http>>

\* _test_single_url lines 283, 297, 304: the result is appended to results
AppendResult(w) ==
    /\ workers[w].pc = "report"
    /\ results' = Append(results, workers[w].result)
    /\ workers' = [workers EXCEPT ![w] = IdleWorker]
    /\ UNCHANGED <<optimizer, gate, gen, cli, ledger, cfg, found_urls, tested_urls, stats,
                   clsVars, main, baseline_for, classifications, last, http>>

\* the executor of a batch is left when all its futures are done: the next
\* group follows, then the next target of process_url_list, which resets stats
JoinBatch ==
    /\ main.pc = "wait"
    /\ main.queue = <<>>
    /\ \A w \in 1..MaxWorkers : workers[w].pc \in {"idle", "raised"}
    /\ IF \E w \in 1..MaxWorkers : workers[w].pc = "raised"
       \* line 620: future.result() raises what the future raised
       THEN /\ main' = [main EXCEPT !.pc = "crashed"]
            /\ stats' = stats
            /\ ledger' = ledger
       ELSE IF main.batches # <<>> \/ main.groups # <<>>
       THEN /\ main' = SubmitBatch(main, cfg.extensions, cfg.entry)
            /\ stats' = stats
            /\ ledger' = [ledger EXCEPT !.batches = Append(@, NextBatchOf(main))]
       ELSE IF main.target < Len(cfg.targets)
       THEN /\ main' = StartTarget(main.target + 1, cfg.extensions)
            /\ stats' = [requests |-> 0, hits |-> 0]
            /\ ledger' = [ledger EXCEPT !.requests = 0, !.hits = 0, !.observed = {}]
       ELSE /\ main' = [IdleMain EXCEPT !.pc = "done", !.target = main.target]
            /\ stats' = stats
            /\ ledger' = ledger
    /\ UNCHANGED <<optimizer, gate, gen, cli, cfg, results, found_urls, tested_urls, clsVars, workers,
                   baseline_for, classifications, last, http>>

Next ==
    \/ DirectImportantCheck
    \/ DirectCheck
    \/ GenerateTestUrls
    \/ \E w \in 1..MaxWorkers : TakeTask(w)
    \/ \E w \in 1..MaxWorkers : AddTested(w)
    \/ \E w \in 1..MaxWorkers : Request(w)
    \/ \E w \in 1..MaxWorkers : CountRequest(w)
    \/ \E w \in 1..MaxWorkers : Classify(w)
    \/ \E w \in 1..MaxWorkers : Judge(w)
    \/ \E w \in 1..MaxWorkers : AddFound(w)
    \/ \E w \in 1..MaxWorkers : AppendResult(w)
    \/ JoinBatch

Spec == Init /\ [][Next]_vars

\* the results of worker probes and of the direct checks
ResultIndexes == 1..Len(results)
IsDirect(r) == r.test_type = "Direct URL"

\* C1: no URL appears twice in the results list, whatever the interleaving
\* of the worker probes and including the direct-URL checks.
C1_NoDuplicateResults ==
    \A i, j \in ResultIndexes : i # j => results[i].url # results[j].url

\* C2: every call of check_false_positive for a candidate of a target, the
\* direct-URL checks included, is made when the baseline of that target has
\* been established.
C2_BaselineBeforeClassification ==
    classifications > 0 => last.baseline = last.target

\* C7: a ScanResult whose false_positive flag is true has a non-empty
\* false_positive_reason: the one check_false_positive has just returned, the
\* ones the workers hold and the ones in results.
C7_FalsePositiveHasReason ==
    /\ last.result.false_positive => last.result.false_positive_reason # ""
    /\ \A w \in 1..MaxWorkers :
          workers[w].result.false_positive => workers[w].result.false_positive_reason # ""
    /\ \A i \in ResultIndexes :
          results[i].false_positive => results[i].false_positive_reason # ""

\* a worker probe flagged by the repeated-response rule is in results
C7_Witness ==
    \E i \in ResultIndexes :
        /\ results[i].false_positive
        /\ ~IsDirect(results[i])
        /\ results[i].false_positive_reason = RepeatedReason(results[i])

\* C8: with suppression enabled (disable_fp = false) no ScanResult in results
\* has false_positive = true, whether a worker probe or a direct-URL check
\* appended it.
C8_NoFalsePositiveReported ==
    ~cfg.disable_fp => \A i \in ResultIndexes : ~results[i].false_positive

\* a direct check and a worker probe have both reported, and the latest
\* classification was a false positive that was kept out of results
C8_Witness ==
    /\ ~cfg.disable_fp
    /\ \E i, j \in ResultIndexes : IsDirect(results[i]) /\ ~IsDirect(results[j])
    /\ last.result.false_positive
    /\ \A w \in 1..MaxWorkers : workers[w].pc = "idle"

\* the answer of the server to the request of worker w
AnswerFor(w) == PageOf(cfg.server, workers[w].url)

\* C9: with disable_fp = true a worker probe is given up only when the request
\* fails, a filter rejects the response or the URL is already in found_urls;
\* otherwise it is classified and then appended to results, whatever its
\* status code, with the flag and reason check_false_positive returned.
C9_EveryProbeReportedWhenDisabled ==
    [][cfg.disable_fp =>
        \A w \in 1..MaxWorkers :
            /\ (workers[w].pc = "count" /\ workers'[w].pc = "idle") =>
                  \/ AnswerFor(w).status_code = 0
                  \/ ~PassesFilters(cfg.filters, AnswerFor(w).status_code,
                                    AnswerFor(w).content_type, AnswerFor(w).content.len)
                  \/ workers[w].url \in found_urls
            /\ (workers[w].pc = "judge" /\ workers'[w].pc # "judge") =>
                  /\ workers'[w].pc = "append"
                  /\ workers'[w].result.url = workers[w].url
                  /\ workers'[w].result.status_code = AnswerFor(w).status_code
                  /\ workers'[w].result.false_positive = last'.result.false_positive
                  /\ workers'[w].result.false_positive_reason =
                        last'.result.false_positive_reason
            /\ (workers[w].pc = "report" /\ workers'[w].pc # "report") =>
                  results' = Append(results, workers[w].result)
      ]_vars

\* a worker probe answered 404 was flagged by the classifier and is in results
C9_Witness ==
    /\ cfg.disable_fp
    /\ \E i \in ResultIndexes :
          /\ ~IsDirect(results[i])
          /\ results[i].status_code = 404
          /\ results[i].false_positive
          /\ results[i].false_positive_reason = Reason404

\* C10: every ScanResult in results satisfies the configured filters (status
\* filter, minimum and maximum content length, ignored content types),
\* whether a worker probe or a direct-URL check appended it.
C10_ResultsPassFilters ==
    \A i \in ResultIndexes :
        PassesFilters(cfg.filters, results[i].status_code, results[i].content_type,
                      results[i].content_length)


(***************************************************************************)
(* generate_test_urls on its own: the generation tasks run on the pool,    *)
(* each a sequence of add_test calls on the shared tests and added_urls,   *)
(* then the brute-force expansion on the calling thread.  tests is kept    *)
(* as a bag: the order of the list is not modelled.                        *)
(***************************************************************************)
GenTargets ==
    { [scheme |-> "http", hostname |-> "dev.example.com", subdomain |-> <<"dev">>,
       domain |-> "example", suffix |-> "com", segments |-> <<"backup">>],
      [scheme |-> "http", hostname |-> "example.com", subdomain |-> <<>>,
       domain |-> "example", suffix |-> "com", segments |-> <<"old", "app.php">>],
      [scheme |-> "https", hostname |-> "example.com", subdomain |-> <<>>,
       domain |-> "example", suffix |-> "com", segments |-> <<>>],
      \* tldextract gives an IPv4 host as the domain, with no suffix
      [scheme |-> "http", hostname |-> "10.0.0.1", subdomain |-> <<>>,
       domain |-> "10.0.0.1", suffix |-> "", segments |-> <<"admin">>],
      [scheme |-> "http", hostname |-> "10.0.0.1", subdomain |-> <<>>,
       domain |-> "10.0.0.1", suffix |-> "", segments |-> <<>>] }

BruteChoices ==
    { NoBrute,
      [brute_mode |-> TRUE, backup_words |-> <<"backup", ".env", "db.sql">>,
       brute_recursive |-> FALSE],
      [brute_mode |-> TRUE, backup_words |-> <<"backup", ".env", "db.sql">>,
       brute_recursive |-> TRUE],
      [brute_mode |-> TRUE, backup_words |-> <<"x.env.dev", "prod.env", ".git">>,
       brute_recursive |-> TRUE] }

\* line 139-143: every task is submitted to the pool
StartGeneration(t, b) ==
    [phase |-> "tasks", target |-> t, brute |-> b, added_urls |-> {},
     tests |-> EmptyBag,
     threads |-> [i \in 1..Len(GenerationTasks(t)) |->
                    [func |-> GenerationTasks(t)[i].func,
                     todo |-> GenerationTasks(t)[i].todo, pc |-> "call"]]]

InitGen ==
    /\ \E t \in GenTargets, b \in BruteChoices : gen = StartGeneration(t, b)
    /\ main_page = NoMainPage
    /\ baseline_responses = EmptyDict
    /\ size_frequency = EmptyDict
    /\ hash_frequency = EmptyDict
    /\ classifications = 0
    /\ last = NoLast
    /\ ScannerIdle
    /\ http = IdleHttp
    /\ gate = IdleGate

GenThreads == 1..Len(gen.threads)
TaskFinished(i) == gen.threads[i].todo = <<>>

\* add_test line 113: a pool thread tests "url not in added_urls"
AddTestCheck(i) ==
    /\ gen.phase = "tasks"
    /\ gen.threads[i].pc = "call"
    /\ ~TaskFinished(i)
    /\ gen' = IF Head(gen.threads[i].todo).url \notin gen.added_urls
              THEN [gen EXCEPT !.threads[i].pc = "add"]
              ELSE [gen EXCEPT !.threads[i].todo = Tail(@)]
    /\ UNCHANGED <<clsVars, scanVars, classifications, last, http, gate>>

\* add_test lines 114-115: the thread that found the URL absent adds it
AddTestAdd(i) ==
    /\ gen.phase = "tasks"
    /\ gen.threads[i].pc = "add"
    /\ gen' = [gen EXCEPT
                 !.added_urls = @ \cup {Head(gen.threads[i].todo).url},
                 !.tests = @ (+) SetToBag({Head(gen.threads[i].todo)}),
                 !.threads[i].todo = Tail(@),
                 !.threads[i].pc = "call"]
    /\ UNCHANGED <<clsVars, scanVars, classifications, last, http, gate>>

BruteForceWanted == gen.brute.brute_mode /\ gen.brute.backup_words # <<>>

\* lines 146-164: every future has a result, the brute-force tests are added
GenBruteForce ==
    /\ gen.phase = "tasks"
    /\ \A i \in GenThreads : TaskFinished(i)
    /\ BruteForceWanted
    /\ gen' = [AddAll(gen, generate_brute_force_tests(gen.target,
                              gen.brute.backup_words, gen.brute.brute_recursive))
                 EXCEPT !.phase = "returned"]
    /\ UNCHANGED <<clsVars, scanVars, classifications, last, http, gate>>

\* lines 146-170 without brute force
GenReturn ==
    /\ gen.phase = "tasks"
    /\ \A i \in GenThreads : TaskFinished(i)
    /\ ~BruteForceWanted
    /\ gen' = [gen EXCEPT !.phase = "returned"]
    /\ UNCHANGED <<clsVars, scanVars, classifications, last, http, gate>>

NextGen ==
    \/ \E i \in GenThreads : AddTestCheck(i)
    \/ \E i \in GenThreads : AddTestAdd(i)
    \/ GenBruteForce
    \/ GenReturn

SpecGen == InitGen /\ [][NextGen]_vars

Returned == gen.phase = "returned"
ReturnedTests == BagToSet(gen.tests)

\* the run in which the pool executes the tasks one after the other
SequentialRun(t, b) ==
    LET tasks == GenerationTasks(t)
        generated == AddAll(StartGeneration(t, b),
                            Flatten([i \in 1..Len(tasks) |-> tasks[i].todo]))
    IN  IF b.brute_mode /\ b.backup_words # <<>>
        THEN AddAll(generated, generate_brute_force_tests(t, b.backup_words,
                                                          b.brute_recursive))
        ELSE generated

\* C11: in the list generate_test_urls returns, every URL occurs in exactly
\* one (url, test_type) pair, under every interleaving of the generation
\* tasks and after the brute-force expansion.
C11_NoUrlEmittedTwice ==
    Returned =>
        \A x \in ReturnedTests :
            /\ CopiesIn(x, gen.tests) = 1
            /\ \A y \in ReturnedTests : y.url = x.url => y = x

\* C12: for a fixed target and wordlist every run of generate_test_urls
\* returns the same set of (url, test_type) pairs: the set of any run is
\* the set of the run that executes the tasks one after the other.
C12_SameSetOnEveryRun ==
    Returned =>
        ReturnedTests = BagToSet(SequentialRun(gen.target, gen.brute).tests)


Range(seq) == {seq[i] : i \in 1..Len(seq)}
IpTarget == is_ip_address(gen.target.hostname)

\* the candidates built from the name tldextract reports as the domain
DomainBackupTests(t) ==
    UNION { { Test(RootOf(t) \o "/" \o t.domain \o "_" \o p,
                   "Domain Backup: " \o t.domain \o "_" \o p),
              Test(RootOf(t) \o "/" \o p \o "_" \o t.domain,
                   "Backup Domain: " \o p \o "_" \o t.domain) } :
            p \in {"backup", "old", "bak", "temp"} }

\* C19: for a target whose hostname is an IPv4 literal the returned list holds
\* no Subdomain, Domain Name, Domain, permutation, domain-backup or
\* path-level domain test.
C19_NoDomainCandidatesForIp ==
    (Returned /\ IpTarget) =>
        ReturnedTests \cap (Range(generate_domain_tests(gen.target))
                            \cup DomainBackupTests(gen.target)
                            \cup Range(generate_path_tests(gen.target))) = {}

\* the URLs that probe a name at the root or under a level of the target's path
ProbesOf(t, name) ==
    {RootOf(t) \o "/" \o name}
    \cup {RootOf(t) \o "/" \o JoinWith(SubSeq(t.segments, 1, k), "/") \o "/" \o name :
            k \in 1..Len(t.segments)}

\* C20: for every IPv4-literal target, with or without a path, the returned
\* list holds a probe for each common directory name and each common port.
C20_IpTargetsProbeCommonPaths ==
    (Returned /\ IpTarget) =>
        \A name \in Range(COMMON_IP_PATH_TESTS) \cup Range(COMMON_PORTS) :
            \E x \in ReturnedTests : x.url \in ProbesOf(gen.target, name)

\* the tests the brute-force expansion builds from a word
BruteForceTestsOf(word) ==
    {x \in ReturnedTests : x.test_type \in {"Brute Force: " \o word,
                                            "Brute Force Recursive: " \o word}}

\* C21: for an IPv4-literal target no brute-force candidate is built from a
\* wordlist word that starts with '.' or contains '.env' or '.git'.
C21_NoAmbiguousWordForIp ==
    (Returned /\ IpTarget) =>
        \A w \in Range(gen.brute.backup_words) :
            w \in WordsStartingWithDot \cup WordsContainingEnv \cup WordsContainingGit
                => BruteForceTestsOf(w) = {}


(***************************************************************************)
(* HttpClient._apply_rate_limit on its own: threads that call get() pass   *)
(* the rate gate while the clock advances.  Times are in milliseconds.     *)
(***************************************************************************)
\* the threads calling get(), the calls they make together, the clock's steps
GateThreads == 2
MaxGateCalls == 3
MaxTicks == 6

\* __init__ lines 156-162: the minimum interval between requests
MinRequestInterval(rate_limit, delay_ms) ==
    IF rate_limit # 0 THEN 1000 \div rate_limit
    ELSE IF delay_ms # 0 THEN delay_ms
    ELSE 0

\* (mutant) a gate that reads the clock and never sleeps
SleepTime_None(interval, time_since_last_request) == 0

\* line 231
SleepTime(interval, time_since_last_request) ==
    interval - time_since_last_request

\* rate_limit in requests per second, delay_ms; 0 stands for None
GateSettings == { <<0, 0>>, <<10, 0>>, <<5, 0>>, <<0, 300>>, <<5, 300>> }

\* the client is constructed with _last_request_time = 0 and the clock shows
\* a time since the epoch that is later than any interval
InitGate ==
    /\ \E g \in GateSettings :
          gate = [IdleGate EXCEPT
                    !.rate_limit = g[1], !.delay_ms = g[2],
                    !.min_request_interval = MinRequestInterval(g[1], g[2]),
                    !.now = 1000,
                    !.threads = [t \in 1..GateThreads |-> NoGateThread]]
    /\ main_page = NoMainPage
    /\ baseline_responses = EmptyDict
    /\ size_frequency = EmptyDict
    /\ hash_frequency = EmptyDict
    /\ classifications = 0
    /\ last = NoLast
    /\ ScannerIdle
    /\ http = IdleHttp
    /\ gen = IdleGen

\* the thread has passed the gate at the time the clock shows
Passed(g, t) ==
    [g EXCEPT !.threads[t].pc = "idle",
              !.threads[t].calls = @ + 1,
              !.threads[t].first_pass = IF g.threads[t].calls = 0 THEN g.now ELSE @,
              !.passes = @ + 1,
              !.previous_pass = g.last_pass,
              !.last_pass = g.now]

\* line 225 with no interval configured: get() goes on at once
GateSkip(t) ==
    /\ gate.min_request_interval = 0
    /\ gate.threads[t].pc = "idle"
    /\ gate.calls < MaxGateCalls
    /\ gate' = [Passed(gate, t) EXCEPT !.calls = @ + 1]
    /\ UNCHANGED <<clsVars, scanVars, classifications, last, http, gen>>

\* lines 226-232: take the lock, read the clock, decide whether to sleep
GateEnter(t) ==
    /\ gate.min_request_interval > 0
    /\ gate.threads[t].pc = "idle"
    /\ gate.calls < MaxGateCalls
    /\ gate.lock = 0
    /\ LET time_since_last_request == gate.now - gate.last_request_time
           sleep_time == SleepTime(gate.min_request_interval, time_since_last_request)
       IN  gate' = IF time_since_last_request < gate.min_request_interval
                   THEN [gate EXCEPT !.lock = t, !.calls = @ + 1,
                                     !.threads[t].pc = "sleep",
                                     !.threads[t].wake = gate.now + sleep_time,
                                     !.sleeps = @ + 1]
                   ELSE [gate EXCEPT !.lock = t, !.calls = @ + 1,
                                     !.threads[t].pc = "stamp"]
    /\ UNCHANGED <<clsVars, scanVars, classifications, last, http, gen>>

\* line 232: time.sleep returns once at least sleep_time has gone by
GateWake(t) ==
    /\ gate.threads[t].pc = "sleep"
    /\ gate.now >= gate.threads[t].wake
    /\ gate' = [gate EXCEPT !.threads[t].pc = "stamp"]
    /\ UNCHANGED <<clsVars, scanVars, classifications, last, http, gen>>

\* line 234 and the end of the with block
GateStamp(t) ==
    /\ gate.threads[t].pc = "stamp"
    /\ gate' = [Passed(gate, t) EXCEPT !.last_request_time = gate.now, !.lock = 0]
    /\ UNCHANGED <<clsVars, scanVars, classifications, last, http, gen>>

\* the clock advances by 100 ms
Tick ==
    /\ gate.ticks < MaxTicks
    /\ gate' = [gate EXCEPT !.now = @ + 100, !.ticks = @ + 1]
    /\ UNCHANGED <<clsVars, scanVars, classifications, last, http, gen>>

NextGate ==
    \/ \E t \in 1..GateThreads : GateSkip(t)
    \/ \E t \in 1..GateThreads : GateEnter(t)
    \/ \E t \in 1..GateThreads : GateWake(t)
    \/ \E t \in 1..GateThreads : GateStamp(t)
    \/ Tick

SpecGate == InitGate /\ [][NextGate]_vars

\* C13: with a minimum interval configured, two consecutive passes through
\* the rate gate, by the same or by different threads, are at least the
\* interval apart, and a thread that has made N calls has spent at least
\* (N-1) intervals since its first pass.
C13_PassesAreAnIntervalApart ==
    gate.min_request_interval > 0 =>
        /\ gate.passes >= 2 =>
              gate.last_pass - gate.previous_pass >= gate.min_request_interval
        /\ \A t \in 1..Len(gate.threads) :
              gate.threads[t].calls >= 1 =>
                 gate.now - gate.threads[t].first_pass
                    >= (gate.threads[t].calls - 1) * gate.min_request_interval

\* both threads have passed the gate, one of them twice, and a thread slept
C13_Witness ==
    /\ gate.min_request_interval > 0
    /\ gate.sleeps >= 1
    /\ \A t \in 1..Len(gate.threads) : gate.threads[t].calls >= 1
    /\ \E t \in 1..Len(gate.threads) : gate.threads[t].calls >= 2
    /\ gate.threads # <<>>


(***************************************************************************)
(* Claims about HttpClient.get (SpecHttp).                                 *)
(***************************************************************************)
GetCalled == http.ops > 0
CalledLarge == IsLarge(http.called.url, http.called.net)
HeadFailed == http.called.net.head # "ok"
RangeFailed == CalledLarge /\ http.called.net.range # "ok"
StreamFailed == RangeFailed /\ http.called.net.stream # "ok"
FullGetFailed == http.called.net.head # "other" /\ ~CalledLarge
                 /\ http.called.net.get # "ok"
\* the failures after which get() has nothing left to try
LastAttemptFailed ==
    http.called.net.head = "other" \/ StreamFailed \/ FullGetFailed

\* C14 as stated: get() never raises, a failure of the HEAD pre-check, of the
\* ranged or streamed fetch or of the full GET gives success = false with an
\* error string, and a result with success = true carries a response.
C14_EveryFailureIsReported ==
    GetCalled =>
        /\ ~http.raised
        /\ (HeadFailed \/ RangeFailed \/ StreamFailed \/ FullGetFailed) =>
              (~http.returned.success /\ http.returned.error # "")
        /\ http.returned.success => http.returned.response # NoResponse

\* C14, amended: get() never raises; when the last request it tries fails
\* (the streamed fetch after the ranged one, the full GET, or a HEAD that
\* ends with an exception other than a RequestException) the result has
\* success = false and an error string; a failed HEAD or ranged fetch that a
\* later request makes up for gives success = true; a result with
\* success = true carries a response and no error.
C14_LastFailureIsReported ==
    GetCalled =>
        /\ ~http.raised
        /\ LastAttemptFailed <=> ~http.returned.success
        /\ ~http.returned.success =>
              (http.returned.error # "" /\ http.returned.response = NoResponse)
        /\ http.returned.success =>
              (http.returned.response # NoResponse /\ http.returned.error = "")

\* a full GET that timed out was reported, after a HEAD that had failed too
C14_Witness ==
    /\ GetCalled
    /\ http.called.net.head = "fail"
    /\ http.called.net.get = "timeout"
    /\ ~http.returned.success
    /\ http.returned.error = "Request timed out"

\* the pre-check as the claim words it: a declared Content-Length above the
\* threshold, or a content type of the large set
PreCheckFindsLarge ==
    /\ http.called.net.head = "ok"
    /\ \/ http.called.net.head_length > MAX_FILE_SIZE
       \/ ContentTypeBase(http.called.net.response.content_type) \in LargeContentTypes

\* at most one chunk by the ranged request, at most MaxChunks chunks otherwise
ReadIsBounded ==
    /\ http.returned.response.content.len <= MaxChunks * CHUNK_SIZE
    /\ http.called.net.range = "ok" =>
          http.returned.response.content.len <= CHUNK_SIZE

\* C15 as stated: whenever the pre-check finds the URL large the body is not
\* downloaded in full and the result has large_file and partial_content set.
C15_LargeIsAlwaysPartial ==
    (GetCalled /\ PreCheckFindsLarge) =>
        /\ ReadIsBounded
        /\ http.returned.large_file /\ http.returned.partial_content

\* C15, amended: whenever get() computes is_large (a declared Content-Length
\* above the threshold; no Content-Length and a content type of the large
\* set; or a large-file extension in the URL) it reads at most one chunk by
\* the ranged request or, if that fails, at most MaxChunks streamed chunks;
\* the result of a fetch that succeeded has large_file and partial_content
\* set, and if both fetches fail the result has success = false and neither.
C15_LargeIsPartialWhenFetched ==
    (GetCalled /\ CalledLarge) =>
        /\ ReadIsBounded
        /\ http.returned.success =>
              (http.returned.large_file /\ http.returned.partial_content)
        /\ ~http.returned.success =>
              (StreamFailed /\ ~http.returned.large_file
                 /\ ~http.returned.partial_content)

\* a body longer than five chunks, the ranged request refused: five chunks read
C15_Witness ==
    /\ GetCalled /\ CalledLarge
    /\ http.called.net.response.content.len > MaxChunks * CHUNK_SIZE
    /\ RangeFailed /\ ~StreamFailed
    /\ http.returned.response.content.len = MaxChunks * CHUNK_SIZE
    /\ http.returned.large_file /\ http.returned.partial_content


(***************************************************************************)
(* Further claims about check_false_positive (SpecClassify).               *)
(***************************************************************************)
\* the hash of the latest response is the hash of a baseline response
HashInBaseline ==
    \E st \in DOMAIN baseline_responses :
        \E i \in 1..Len(baseline_responses[st]) :
            baseline_responses[st][i].content_hash = calculate_content_hash(last.content)

\* C18: a success response for a .pdf URL whose body starts with the PDF
\* magic bytes is never classified as a false positive, whatever the
\* baseline, the main-page fingerprint and the frequency indexes hold.
C18_PdfIsNeverFalsePositive ==
    (/\ Classified
     /\ last.result.status_code \in SUCCESS_STATUSES
     /\ EndsWithPdf(last.result.url)
     /\ last.content.pdfsig) =>
        (~last.result.false_positive /\ last.result.false_positive_reason = "")

\* the third PDF answer for the .pdf URL, with the hash of the baseline 404
\* response and the size of two earlier answers, was not flagged
C18_Witness ==
    /\ classifications >= 3
    /\ last.result.status_code = 200
    /\ EndsWithPdf(last.result.url)
    /\ last.content.pdfsig
    /\ HashInBaseline
    /\ Cardinality(Lookup(hash_frequency, calculate_content_hash(last.content), {})) >= 3
    /\ ~last.result.false_positive


(***************************************************************************)
(* The classifier fed with answers that repeat: a few responses at a few   *)
(* URLs, classified up to MaxRepeated times over one pair of indexes.      *)
(***************************************************************************)
MaxRepeated == 5

RepeatUrls == {Url("x", "bak"), Url("x", "zip"), Url("x", "sql"), Url("x", "backup")}

RepeatResponses ==
    { Response(200, CT_PLAIN, BData, BData.len),
      Response(200, CT_HTML, BErr, BErr.len),
      Response(403, CT_PLAIN, BErrV, BErrV.len),
      Response(200, CT_PDF, BPdf, BPdf.len) }

RepeatBaselines ==
    { <<NoMainPage, EmptyDict>>, <<MainPageOf(CT_HTML, BMain), Baseline404>> }

InitRepeat ==
    /\ \E b \in RepeatBaselines : main_page = b[1] /\ baseline_responses = b[2]
    /\ size_frequency = EmptyDict
    /\ hash_frequency = EmptyDict
    /\ classifications = 0
    /\ last = NoLast
    /\ ScannerIdle
    /\ http = IdleHttp
    /\ gate = IdleGate
    /\ gen = IdleGen

\* one call check_false_positive(result, content, baseline, main_page, ...)
RepeatResponse ==
    \E url \in RepeatUrls, r \in RepeatResponses :
        LET res == [url |-> url, status_code |-> r.status_code,
                    content_type |-> r.content_type,
                    content_length |-> r.content_length]
            v == check_false_positive(res, r.content, baseline_responses,
                                      main_page, size_frequency, hash_frequency)
        IN  /\ classifications < MaxRepeated
            /\ classifications' = classifications + 1
            /\ size_frequency' = v.size_frequency
            /\ hash_frequency' = v.hash_frequency
            /\ last' = [result |-> ScanResult(url, r.status_code, r.content_type,
                                               r.content_length, "", v),
                        content |-> r.content, target |-> 0, baseline |-> 0]
            /\ UNCHANGED <<main_page, baseline_responses, scanVars, http, gate, gen>>

NextRepeat == RepeatResponse

SpecRepeat == InitRepeat /\ [][NextRepeat]_vars

\* the URLs that have returned the hash of the latest response, that one included
UrlsWithLastHash == Lookup(hash_frequency, calculate_content_hash(last.content), {})
\* how often the (status, length, type) of the latest response has been counted
LastSizeCount == Lookup(size_frequency, SizeKey(last.result), 0)
LastIsPdf == IsPdfDocument(last.result, last.content)

\* C16 as stated: once a non-empty body has been returned for URLs with at
\* least 3 distinct file extensions, the response that makes it so and every
\* later response with that body is classified as a false positive.
C16_RepeatedHashIsFalsePositive ==
    (/\ Classified
     /\ last.content.len # 0
     /\ Cardinality({UrlExtension(u) : u \in UrlsWithLastHash}) >= HashRepeatThreshold) =>
        last.result.false_positive

\* C16, amended: the same for extensions of at most 5 characters, unless the
\* response is a success response recognized as a PDF document or has a
\* content length of zero.
C16_RepeatedHashIsFalsePositiveUnlessPdf ==
    (/\ Classified
     /\ last.result.content_length # 0
     /\ ~LastIsPdf
     /\ Cardinality(ExtensionsOf(UrlsWithLastHash)) >= HashRepeatThreshold) =>
        last.result.false_positive

\* a fourth answer with a body already seen for three extensions was flagged
\* by the same-content rule
C16_Witness ==
    /\ classifications >= 4
    /\ last.result.status_code = 200
    /\ Cardinality(ExtensionsOf(UrlsWithLastHash)) >= HashRepeatThreshold
    /\ last.result.false_positive
    /\ last.result.false_positive_reason = ReasonSameContent

SmallHtmlSuccess ==
    /\ last.result.status_code \in SUCCESS_STATUSES
    /\ ContainsHtml(last.result.content_type)
    /\ last.result.content_length < SmallHtmlLimit

\* C17 as stated: a (status, length, type) triple counted for the 3rd time or
\* more is a false positive, small HTML pages with a success status only
\* from the 5th time on.
C17_RepeatedTripleIsFalsePositive ==
    Classified =>
        /\ (LastSizeCount >= RepeatThreshold /\ ~SmallHtmlSuccess) =>
              last.result.false_positive
        /\ (LastSizeCount >= RepeatThresholdSuccess /\ SmallHtmlSuccess) =>
              last.result.false_positive

\* the latest response reached the counter of its triple
LastWasCounted ==
    /\ Classified
    /\ last.result.content_length # 0
    /\ ~LastIsPdf
    /\ last.result.status_code # 404

RepeatedReasons ==
    {"Multiple identical small HTML responses (likely custom error page)",
     "Multiple identical responses"}

\* C17, amended: a counted response whose triple has been counted 3 times
\* or more is a false positive if its status is not 200/206 or if it is an
\* HTML page under 2000 bytes; any other success response only once the
\* triple has been counted 5 times; and the rule gives its reason in no
\* other case.
C17_RepeatedTripleRule ==
    /\ (/\ LastWasCounted
        /\ LastSizeCount >= RepeatThreshold
        /\ \/ last.result.status_code \notin SUCCESS_STATUSES
           \/ SmallHtmlSuccess
           \/ LastSizeCount >= RepeatThresholdSuccess) =>
          last.result.false_positive
    /\ last.result.false_positive_reason \in RepeatedReasons =>
          /\ LastWasCounted
          /\ LastSizeCount >= RepeatThreshold
          /\ \/ last.result.status_code \notin SUCCESS_STATUSES
             \/ SmallHtmlSuccess
             \/ LastSizeCount >= RepeatThresholdSuccess

\* the fifth identical plain-text 200 answer was flagged by the rule
C17_Witness ==
    /\ last.result.status_code = 200
    /\ ~SmallHtmlSuccess
    /\ LastSizeCount = RepeatThresholdSuccess
    /\ last.result.false_positive
    /\ last.result.false_positive_reason = "Multiple identical responses"



(***************************************************************************)
(* cli.main: the scan of one URL under the SIGINT handler.  The handler    *)
(* calls sys.exit(0) on the main thread; SystemExit is no Exception, so    *)
(* none of the except clauses of the scanner or of main catches it.        *)
(***************************************************************************)
InterruptExtensions == { <<"pdf", "bak">>, <<"bak", "zip">>, <<"pdf", "bak", "zip">> }
\* a server that answers every candidate with the same archive
ArchiveServer ==
    [pages |-> [e \in ModelExtensions |-> Page(200, CT_ZIP, BData)],
     main |-> Page(200, CT_HTML, BMain), notfound |-> Page(404, CT_PLAIN, BErr),
     refused |-> {}]
InterruptServers == {PlainServer, ForbiddenServer, ArchiveServer}

\* main lines 270-297: the handler is installed, the scanner is configured
\* and process_url is called
InitInterrupt ==
    /\ \E d \in BOOLEAN, e \in InterruptExtensions, sv \in InterruptServers,
          o \in BOOLEAN :
            /\ cfg = [disable_fp |-> d, filters |-> NoFilters, extensions |-> e,
                      targets |-> <<"a">>, server |-> sv, entry |-> "url",
                      max_workers |-> MaxWorkers]
            /\ main = StartTarget(1, e)
            /\ cli = [IdleCli EXCEPT !.pc = "scan", !.output = o]
    /\ results = <<>>
    /\ found_urls = {}
    /\ tested_urls = {}
    /\ stats = [requests |-> 0, hits |-> 0]
    /\ workers = [w \in 1..MaxWorkers |-> IdleWorker]
    /\ baseline_for = 0
    /\ main_page = NoMainPage
    /\ baseline_responses = EmptyDict
    /\ size_frequency = EmptyDict
    /\ hash_frequency = EmptyDict
    /\ classifications = 0
    /\ last = NoLast
    /\ http = [IdleHttp EXCEPT !.max_size = DefaultCacheSize, !.use_cache = TRUE]
    /\ gate = IdleGate
    /\ gen = IdleGen
    /\ ledger = IdleLedger
    /\ optimizer = IdleOptimizer

\* handle_interrupt lines 255-266: SIGINT while main is in the scan or in
\* the lines after it.  Inside the executor's with block the exception first
\* runs the block's exit, which waits for every submitted future.
Interrupt ==
    /\ cli.pc = "scan"
    /\ ~cli.interrupted
    /\ main.pc \in {"important", "direct", "generate", "wait", "done"}
    /\ IF main.pc = "wait"
       THEN /\ main' = [main EXCEPT !.pc = "shutdown"]
            /\ cli' = [cli EXCEPT !.interrupted = TRUE]
       ELSE /\ main' = [main EXCEPT !.pc = "aborted"]
            /\ cli' = [cli EXCEPT !.interrupted = TRUE, !.pc = "exit", !.exit_code = 0]
    /\ UNCHANGED <<optimizer, gate, gen, ledger, cfg, results, found_urls, tested_urls, stats,
                   clsVars, workers, baseline_for, classifications, last, http>>

\* the with block of process_url is left once the pool has run every future
\* of the batch; SystemExit then ends the process with the handler's code
ShutdownExit ==
    /\ main.pc = "shutdown"
    /\ main.queue = <<>>
    /\ \A w \in 1..MaxWorkers : workers[w].pc = "idle"
    /\ main' = [main EXCEPT !.pc = "aborted"]
    /\ cli' = [cli EXCEPT !.pc = "exit", !.exit_code = 0]
    /\ UNCHANGED <<optimizer, gate, gen, ledger, cfg, results, found_urls, tested_urls, stats,
                   clsVars, workers, baseline_for, classifications, last, http>>

\* main lines 298-308: process_url has returned, the results are exported
\* when an output file was given
ExportResults ==
    /\ cli.pc = "scan"
    /\ main.pc = "done"
    /\ cli' = [cli EXCEPT !.pc = "exit", !.exit_code = 0,
                          !.exported = cli.output,
                          !.written = IF cli.output THEN results ELSE <<>>]
    /\ UNCHANGED <<optimizer, gate, gen, ledger, cfg, results, found_urls, tested_urls, stats,
                   clsVars, main, workers, baseline_for, classifications, last, http>>

NextInterrupt ==
    \/ Next
    \/ Interrupt
    \/ ShutdownExit
    \/ ExportResults

SpecInterrupt == InitInterrupt /\ [][NextInterrupt]_vars

\* C22: after a user interrupt no new probe is started, and the run ends
\* with the results accumulated so far written to the output file when one
\* is configured.
C22_InterruptStopsAndKeepsResults ==
    [][/\ cli.interrupted => main'.queue = main.queue
       /\ (cli'.interrupted /\ cli'.pc = "exit" /\ cli'.output)
             => (cli'.exported /\ cli'.written = results')]_vars

\* the two halves of C22
C22_NoProbeAfterInterrupt ==
    [][cli.interrupted => main'.queue = main.queue]_vars
C22_ResultsExportedAfterInterrupt ==
    (cli.interrupted /\ cli.pc = "exit" /\ cli.output)
        => (cli.exported /\ cli.written = results)


(***************************************************************************)
(* The scan when a probe fails: the transport fails (a server that does    *)
(* not answer) or an exception is raised between the response and the      *)
(* report.                                                                 *)
(***************************************************************************)
\* (mutant) an except clause that raises again: the future ends with the
\* exception
CaughtProbe_Reraise(wk) == [wk EXCEPT !.pc = "raised"]

\* _test_single_url lines 307-312: the exception is logged, None is returned
CaughtProbe(wk) == IdleWorker

\* an exception raised inside the try block of _test_single_url, after the
\* request: in the filters, in check_false_positive or before the report
ProbeRaises(w) ==
    /\ workers[w].pc \in {"classify", "judge", "append"}
    /\ workers' = [workers EXCEPT ![w] = CaughtProbe(@)]
    /\ ledger' = [ledger EXCEPT !.raised = @ \cup {workers[w].url}]
    /\ UNCHANGED <<optimizer, gate, gen, cli, cfg, results, found_urls, tested_urls, stats, clsVars,
                   main, baseline_for, classifications, last, http>>

FaultExtensions == { <<"pdf", "bak">>, <<"pdf", "bak", "zip">> }
FaultServers == {PlainServer, ForbiddenServer, EmptyServer}

InitFault ==
    /\ \E d \in BOOLEAN, e \in FaultExtensions, sv \in FaultServers :
            /\ cfg = [disable_fp |-> d, filters |-> NoFilters, extensions |-> e,
                      targets |-> <<"a">>, server |-> sv, entry |-> "url",
                      max_workers |-> MaxWorkers]
            /\ main = StartTarget(1, e)
    /\ results = <<>>
    /\ found_urls = {}
    /\ tested_urls = {}
    /\ stats = [requests |-> 0, hits |-> 0]
    /\ workers = [w \in 1..MaxWorkers |-> IdleWorker]
    /\ baseline_for = 0
    /\ main_page = NoMainPage
    /\ baseline_responses = EmptyDict
    /\ size_frequency = EmptyDict
    /\ hash_frequency = EmptyDict
    /\ classifications = 0
    /\ last = NoLast
    /\ http = [IdleHttp EXCEPT !.max_size = DefaultCacheSize, !.use_cache = TRUE]
    /\ gate = IdleGate
    /\ gen = IdleGen
    /\ cli = IdleCli
    /\ ledger = IdleLedger
    /\ optimizer = IdleOptimizer

NextFault ==
    \/ Next
    \/ \E w \in 1..MaxWorkers : ProbeRaises(w)

SpecFault == InitFault /\ [][NextFault]_vars

\* the candidates of every batch of every target
Candidates ==
    UNION { { Url(TestUrlsOf(cfg.targets[t])[g].base, cfg.extensions[e]) :
                g \in 1..Len(TestUrlsOf(cfg.targets[t])),
                e \in 1..Len(cfg.extensions) } :
            t \in 1..Len(cfg.targets) }
\* the probes that failed: no answer from the server, or an exception
TransportFailed == {u \in ledger.probed : PageOf(cfg.server, u).status_code = 0}
FailedProbes == TransportFailed \cup ledger.raised

\* C23: a probe that fails, by a transport error or by an exception raised
\* while its response is filtered or classified, yields no result and never
\* ends the scan: the scan does not crash and, when it is done, every
\* candidate of every batch has been probed.
C23_FailedProbeDoesNotStopScan ==
    /\ main.pc # "crashed"
    /\ \A w \in 1..MaxWorkers : workers[w].pc # "raised"
    /\ main.pc = "done" => Candidates \subseteq ledger.probed
    /\ \A i \in ResultIndexes :
          ~IsDirect(results[i]) => results[i].url \notin FailedProbes

\* the scan is done after a probe of the first batch raised and another got
\* no answer, and a probe of the second batch is in results
C23_Witness ==
    /\ main.pc = "done"
    /\ \E u \in ledger.raised : u.base = TestUrlsOf(cfg.targets[1])[1].base
    /\ TransportFailed # {}
    /\ \E i \in ResultIndexes : results[i].test_type = TestUrlsOf(cfg.targets[1])[2].test_type


(***************************************************************************)
(* ExtensionOptimizer.optimize_extensions on its own: every extension list *)
(* of up to MaxExtensions entries, duplicates included, for a target of    *)
(* each context.                                                           *)
(***************************************************************************)
MaxExtensions == 3
OptimizerExtensions == {"sql", "zip", "bak", "tar", "txt", "pdf", "php~", "xyz"}
OptimizerTargets ==
    { [hostname |-> "example.com", path |-> "/app"],
      [hostname |-> "example.com", path |-> "/backup"],
      [hostname |-> "dev.example.com", path |-> "/app"],
      [hostname |-> "beta.example.com", path |-> "/app"] }

InitOptimize ==
    /\ \E n \in 0..MaxExtensions, t \in OptimizerTargets :
          \E e \in [1..n -> OptimizerExtensions] :
              optimizer = [phase |-> "call", extensions |-> e, target_url |-> t,
                           optimized |-> <<>>]
    /\ main_page = NoMainPage
    /\ baseline_responses = EmptyDict
    /\ size_frequency = EmptyDict
    /\ hash_frequency = EmptyDict
    /\ classifications = 0
    /\ last = NoLast
    /\ cli = IdleCli
    /\ ledger = IdleLedger
    /\ cfg = IdleCfg
    /\ results = <<>>
    /\ found_urls = {}
    /\ tested_urls = {}
    /\ stats = [requests |-> 0, hits |-> 0]
    /\ main = IdleMain
    /\ workers = [w \in 1..MaxWorkers |-> IdleWorker]
    /\ baseline_for = 0
    /\ http = IdleHttp
    /\ gate = IdleGate
    /\ gen = IdleGen

\* optimize_extensions(extensions, target_url) is called and returns
OptimizeExtensions ==
    /\ optimizer.phase = "call"
    /\ optimizer' = [optimizer EXCEPT
                       !.phase = "returned",
                       !.optimized = optimize_extensions_in(optimizer.extensions,
                                        analyze_target_context(optimizer.target_url))]
    /\ UNCHANGED <<clsVars, cfg, results, found_urls, tested_urls, stats, main, workers,
                   baseline_for, cli, ledger, classifications, last, http, gate, gen>>

NextOptimize == OptimizeExtensions

SpecOptimize == InitOptimize /\ [][NextOptimize]_vars

\* how often x occurs in a list
Occurrences(seq, x) == Cardinality({i \in 1..Len(seq) : seq[i] = x})

\* C24: the list optimize_extensions returns is a permutation of its input:
\* the same length and every extension as often as in the input, whichever
\* context branch the target selects.
C24_OptimizedIsPermutation ==
    optimizer.phase = "returned" =>
        /\ Len(optimizer.optimized) = Len(optimizer.extensions)
        /\ \A x \in OptimizerExtensions :
              Occurrences(optimizer.optimized, x) = Occurrences(optimizer.extensions, x)

\* a backup-site target, a list with a repeated extension, and an order that
\* differs from the input's
C24_Witness ==
    /\ optimizer.phase = "returned"
    /\ analyze_target_context(optimizer.target_url).likely_backup_site
    /\ \E i, j \in 1..Len(optimizer.extensions) :
          i # j /\ optimizer.extensions[i] = optimizer.extensions[j]
    /\ optimizer.optimized # optimizer.extensions

(***************************************************************************)
(* process_url lines 579-625: the batches of a test type and their pools.  *)
(* The deep target has a test type of more than BATCH_LIMIT base URLs; its *)
(* server refuses the connection on those paths and it is scanned with one *)
(* thread, the other target with up to MaxWorkers.                         *)
(***************************************************************************)
DeepServer == [PlainServer EXCEPT !.refused = DeepBases]
BatchExtensions == { <<"bak">>, <<"pdf", "bak">> }
BatchTargets == { <<"a">>, <<DeepTarget>> }

InitBatch ==
    /\ \E d \in BOOLEAN, e \in BatchExtensions, t \in BatchTargets, m \in 1..MaxWorkers :
            /\ t = <<DeepTarget>> => m = 1
            /\ cfg = [disable_fp |-> d, filters |-> NoFilters, extensions |-> e,
                      targets |-> t, server |-> DeepServer, entry |-> "url",
                      max_workers |-> m]
            /\ main = StartTarget(1, e)
    /\ results = <<>>
    /\ found_urls = {}
    /\ tested_urls = {}
    /\ stats = [requests |-> 0, hits |-> 0]
    /\ workers = [w \in 1..MaxWorkers |-> IdleWorker]
    /\ baseline_for = 0
    /\ main_page = NoMainPage
    /\ baseline_responses = EmptyDict
    /\ size_frequency = EmptyDict
    /\ hash_frequency = EmptyDict
    /\ classifications = 0
    /\ last = NoLast
    /\ http = [IdleHttp EXCEPT !.max_size = DefaultCacheSize, !.use_cache = TRUE]
    /\ gate = IdleGate
    /\ gen = IdleGen
    /\ cli = IdleCli
    /\ ledger = IdleLedger
    /\ optimizer = IdleOptimizer

SpecBatch == InitBatch /\ [][Next]_vars

\* the probes in flight: the futures a pool thread is running
InFlight == { w \in 1..MaxWorkers : workers[w].pc # "idle" }
\* the candidates of the current target, and how often the batches submitted
\* so far hold one of them
CandidatesOfTarget ==
    IF main.target = 0 THEN {}
    ELSE { TestUrlsOf(cfg.targets[main.target])[i] :
             i \in 1..Len(TestUrlsOf(cfg.targets[main.target])) }
\* the places of the batches submitted so far, and the candidate at a place
BatchSlots ==
    { s \in (1..Len(ledger.batches)) \X (1..BATCH_LIMIT + 1) :
        s[2] <= Len(ledger.batches[s[1]].urls) }
BatchedAt(s) ==
    [base |-> ledger.batches[s[1]].urls[s[2]],
     test_type |-> ledger.batches[s[1]].test_type]

\* C25: at most max_workers probes are in flight, a batch holds at most 100
\* candidate URLs, all of its test type, every candidate of a group is in
\* exactly one batch once the groups are through (and in no more than one
\* before), and every probe in flight belongs to the batch submitted last.
C25_BatchesAndPool ==
    LET candidates == CandidatesOfTarget
        batched == { BatchedAt(s) : s \in BatchSlots }
    IN  /\ Cardinality(InFlight) <= cfg.max_workers
        /\ \A b \in 1..Len(ledger.batches) :
              Len(ledger.batches[b].urls) \in 1..BATCH_LIMIT
        /\ batched \subseteq candidates
        /\ Cardinality(batched) = Cardinality(BatchSlots)
        /\ main.pc = "done" => batched = candidates
        /\ \A w \in InFlight : workers[w].batch = main.batch

\* the probes of the slice that follows a full batch of the same test type
\* are in flight
C25_Witness ==
    /\ main.batch > 2
    /\ InFlight # {}
    /\ Len(ledger.batches[main.batch - 1].urls) = BATCH_LIMIT
    /\ ledger.batches[main.batch - 1].test_type = ledger.batches[main.batch].test_type

(***************************************************************************)
(* The frequency indexes and the target they belong to (process_url lines  *)
(* 417-425 and 544-546, _process_url_without_progress lines 1200-1202).    *)
(***************************************************************************)
\* the URLs the hash index holds an observation of
HashIndexUrls == UNION { hash_frequency[h] : h \in DOMAIN hash_frequency }

\* C26: whenever check_false_positive gives a verdict for a candidate of the
\* current target, a direct-URL check included, the hash index it has read
\* and updated holds the observations of exactly the candidates classified
\* for that target so far: all of them and none of a previous target.
C26_IndexesBelongToTarget ==
    [][classifications' # classifications => HashIndexUrls' = ledger'.observed]_vars

\* the two halves: nothing of a previous target, nothing of this one dropped
C26_NothingOfPreviousTarget ==
    [][classifications' # classifications => HashIndexUrls' \subseteq ledger'.observed]_vars
C26_NothingDropped ==
    [][classifications' # classifications => ledger'.observed \subseteq HashIndexUrls']_vars

(***************************************************************************)
(* The requests of a scan and the rate gate.  HttpClient.get passes the    *)
(* gate once (line 253) and then sends the HEAD pre-check and the GET; the *)
(* direct checks of the important extensions send a GET on a Session of    *)
(* their own (scanner.py 357-383).  LeftOver.__init__ (lines 94-100) hands *)
(* no rate setting to its HttpClient, which is the setting <<0, 0>>; the   *)
(* other settings are those of a client constructed with a rate limit.     *)
(***************************************************************************)
MaxDirectChecks == 2

InitRate ==
    /\ \E g \in GateSettings :
          gate = [IdleGate EXCEPT
                    !.rate_limit = g[1], !.delay_ms = g[2],
                    !.min_request_interval = MinRequestInterval(g[1], g[2]),
                    !.now = 1000,
                    !.threads = [t \in 1..GateThreads |-> NoGateThread]]
    /\ main_page = NoMainPage
    /\ baseline_responses = EmptyDict
    /\ size_frequency = EmptyDict
    /\ hash_frequency = EmptyDict
    /\ classifications = 0
    /\ last = NoLast
    /\ ScannerIdle
    /\ http = IdleHttp
    /\ gen = IdleGen

\* a request goes out at the time the clock shows
Sent(wire, kind) ==
    [wire EXCEPT !.count = @ + 1,
                 !.previous = wire.last, !.previous_kind = wire.last_kind,
                 !.last = gate.now, !.last_kind = kind]

\* get() has passed the gate and has not yet sent its HEAD and its GET
Owes(t) == Lookup(ledger.wire.sent, t, 0) < 2 * gate.threads[t].calls

\* get() lines 262-319: the HEAD pre-check, then the GET
SendRequest(t) ==
    /\ gate.threads[t].pc = "idle"
    /\ Owes(t)
    /\ LET n == Lookup(ledger.wire.sent, t, 0)
       IN  ledger' = [ledger EXCEPT !.wire =
                        [Sent(@, IF n % 2 = 0 THEN "HEAD" ELSE "GET") EXCEPT
                            !.sent = Store(@, t, n + 1)]]
    /\ UNCHANGED <<cfg, results, found_urls, tested_urls, stats, main, workers,
                   baseline_for, cli, optimizer, clsVars, classifications, last,
                   http, gate, gen>>

\* process_url lines 357-383: the main thread's GET for an important
\* extension, before the pool is started
SendDirect ==
    /\ gate.calls = 0
    /\ ledger.wire.direct < MaxDirectChecks
    /\ ledger' = [ledger EXCEPT !.wire = [Sent(@, "DIRECT") EXCEPT !.direct = @ + 1]]
    /\ UNCHANGED <<cfg, results, found_urls, tested_urls, stats, main, workers,
                   baseline_for, cli, optimizer, clsVars, classifications, last,
                   http, gate, gen>>

\* a thread calls get() again when the previous call has sent its requests
RateSkip(t) == ~Owes(t) /\ GateSkip(t)
RateEnter(t) == ~Owes(t) /\ GateEnter(t)

NextRate ==
    \/ SendDirect
    \/ \E t \in 1..GateThreads : RateSkip(t)
    \/ \E t \in 1..GateThreads : RateEnter(t)
    \/ \E t \in 1..GateThreads : GateWake(t)
    \/ \E t \in 1..GateThreads : GateStamp(t)
    \/ \E t \in 1..GateThreads : SendRequest(t)
    \/ Tick

SpecRate == InitRate /\ [][NextRate]_vars

\* C27: with a minimum interval configured, every request that goes out
\* (a HEAD pre-check, a GET, a direct check of an important extension) is at
\* least the interval later than the request before it.
C27_OutboundRequestsApart ==
    (gate.min_request_interval > 0 /\ ledger.wire.count >= 2) =>
        ledger.wire.last - ledger.wire.previous >= gate.min_request_interval

\* the parts: the GET after its own HEAD, a direct check after another, and
\* the HEAD of a get() after the request before it
C27_GetAfterHeadApart ==
    (gate.min_request_interval > 0 /\ ledger.wire.last_kind = "GET") =>
        ledger.wire.last - ledger.wire.previous >= gate.min_request_interval
C27_DirectChecksApart ==
    (/\ gate.min_request_interval > 0
     /\ ledger.wire.last_kind = "DIRECT"
     /\ ledger.wire.previous_kind = "DIRECT") =>
        ledger.wire.last - ledger.wire.previous >= gate.min_request_interval
C27_HeadAfterGetApart ==
    (/\ gate.min_request_interval > 0
     /\ ledger.wire.last_kind = "HEAD"
     /\ ledger.wire.previous_kind = "GET") =>
        ledger.wire.last - ledger.wire.previous >= gate.min_request_interval

(***************************************************************************)
(* The counters the pool threads share: stats and the size index are       *)
(* updated with += and no lock (scanner.py 198, 281, 295, 302 and          *)
(* detection.py 252-254); the ledger counts every update that was made.    *)
(***************************************************************************)
AllProbesCompleted == \A w \in 1..MaxWorkers : workers[w].pc = "idle"

\* C28: when the probes that were started have completed, stats['requests']
\* is the number of get() calls made, stats['hits'] the number of results
\* appended and every size count the number of classifications recorded for
\* its key, whatever the interleaving.
C28_NoLostUpdate ==
    AllProbesCompleted =>
        /\ stats.requests = ledger.requests
        /\ stats.hits = ledger.hits
        /\ size_frequency = ledger.size_frequency

\* the three counters one by one
C28_RequestsCounted == AllProbesCompleted => stats.requests = ledger.requests
C28_HitsCounted == AllProbesCompleted => stats.hits = ledger.hits
C28_SizesCounted == AllProbesCompleted => size_frequency = ledger.size_frequency

(***************************************************************************)
(* results and found_urls at every point of a scan, the points between the *)
(* two statements of a report and those after an interrupt included.       *)
(***************************************************************************)
\* C29: in every state the URL of every ScanResult in results is in
\* found_urls, and every step leaves the results it finds as they are: the
\* list only grows, whatever check_false_positive says of later responses.
C29_ResultsFoundAndKept ==
    /\ [](\A i \in ResultIndexes : results[i].url \in found_urls)
    /\ [][/\ Len(results') >= Len(results)
          /\ \A i \in ResultIndexes : results'[i] = results[i]]_vars

\* a thread has added its URL to found_urls and not yet appended the result,
\* after the interrupt, while an accepted result with the same body is in
\* results and the latest response with that body was flagged
C29_Witness ==
    /\ cli.interrupted
    /\ \E w \in 1..MaxWorkers :
          /\ workers[w].pc = "report"
          /\ workers[w].url \in found_urls
    /\ \E i \in ResultIndexes :
          /\ ~results[i].false_positive
          /\ last.result.false_positive
          /\ last.result.content_hash = results[i].content_hash

(***************************************************************************)
(* The two entry points, process_url (cli.py 296) and process_url_list     *)
(* (cli.py 294) with a list of one URL, on the same target, configuration  *)
(* and server.  Target "b" has a candidate that carries an extension.      *)
(***************************************************************************)
EntryExtensions == { <<"pdf", "bak">>, <<"bak", "zip">> }
EntryServers == {PlainServer, ForbiddenServer}
EntryTargets == { <<"a">>, <<"b">> }

InitEntry ==
    /\ \E d \in BOOLEAN, e \in EntryExtensions, sv \in EntryServers,
          t \in EntryTargets, en \in {"url", "list"} :
            /\ cfg = [disable_fp |-> d, filters |-> NoFilters, extensions |-> e,
                      targets |-> t, server |-> sv, entry |-> en,
                      max_workers |-> MaxWorkers]
            /\ main = StartTarget(1, e)
    /\ results = <<>>
    /\ found_urls = {}
    /\ tested_urls = {}
    /\ stats = [requests |-> 0, hits |-> 0]
    /\ workers = [w \in 1..MaxWorkers |-> IdleWorker]
    /\ baseline_for = 0
    /\ main_page = NoMainPage
    /\ baseline_responses = EmptyDict
    /\ size_frequency = EmptyDict
    /\ hash_frequency = EmptyDict
    /\ classifications = 0
    /\ last = NoLast
    /\ http = [IdleHttp EXCEPT !.max_size = DefaultCacheSize, !.use_cache = TRUE]
    /\ gate = IdleGate
    /\ gen = IdleGen
    /\ cli = IdleCli
    /\ ledger = IdleLedger
    /\ optimizer = IdleOptimizer

SpecEntry == InitEntry /\ [][Next]_vars

OtherEntry == IF cfg.entry = "url" THEN "list" ELSE "url"

\* the probe URLs an entry point submits to the pool for the batches of the
\* target
ProbeUrlsOf(entry) ==
    UNION { LET tasks == TasksOf(ledger.batches[b].urls, ledger.batches[b].test_type,
                                 cfg.extensions, entry)
            IN  { Url(tasks[k].base, tasks[k].ext) : k \in 1..Len(tasks) } :
            b \in 1..Len(ledger.batches) }

\* C30: when the scan of a target is through, the URLs the pool has probed
\* are those the other entry point submits for the same target, a candidate
\* that carries an extension has been probed as it is and only so, and every
\* result a probe has reported is the result of a probe of the other entry
\* point too.
C30_EntryPointsEquivalent ==
    main.pc = "done" =>
        /\ ledger.probed = ProbeUrlsOf(OtherEntry)
        /\ \A u \in ledger.probed : has_extension(u.base) => u.ext = ""
        /\ \A i \in ResultIndexes :
              IsDirect(results[i]) \/ results[i].url \in ProbeUrlsOf(OtherEntry)

\* the parts, and the claim for a target without such a candidate
C30_SameProbes == main.pc = "done" => ledger.probed = ProbeUrlsOf(OtherEntry)
C30_ExtensionProbedAsIs ==
    main.pc = "done" => \A u \in ledger.probed : has_extension(u.base) => u.ext = ""
C30_SameResults ==
    main.pc = "done" =>
        \A i \in ResultIndexes :
            IsDirect(results[i]) \/ results[i].url \in ProbeUrlsOf(OtherEntry)
C30_EquivalentWithoutExtension ==
    (main.pc = "done" /\ cfg.targets[1] \notin TargetsWithSuffix) =>
        /\ ledger.probed = ProbeUrlsOf(OtherEntry)
        /\ ledger.probed = ProbeUrlsOf(cfg.entry)

=============================================================================
